---- MODULE Spec2Model ----
(***************************************************************************)
(* Payment gate (x402), chain verifier (verifyPayment) and replay store of *)
(* the Basis edge services.  Text values the code inspects character by    *)
(* character (the Authorization header, addresses) are sequences of        *)
(* one-character strings.                                                  *)
(***************************************************************************)
EXTENDS Integers, Sequences, FiniteSets, TLC

\* ------------------------------------------------------------ bounds
\* Number of requests that go through the gate in one behaviour.
NumReq == 2
\* Number of times the clock of the replay store is advanced.
MaxTicks == 2
\* Longest list of event logs of a receipt handed to verifyPayment.
MaxLogs == 2
\* Largest number of own properties of the inputs object of a calculation.
MaxInputs == 3

\* ------------------------------------------------- program constants
MIN_PAYMENT_AMOUNT == 1000
REPLAY_TTL == 86400
PENDING_TTL == 300
\* authHeader.length !== 66
HEADER_LENGTH == 66

USDC_BASE_ADDRESS ==
    <<"0","x","8","3","3","5","8","9","f","C","D","6","e","D","b","6","E","0","8","f","4","c","7","C","3","2","D","4","f","7","1","b","5","4","b","d","A","0","2","9","1","3">>

\* ------------------------------------------------------------- text
\* n copies of the sequence s
Rep(s, n) ==
    [i \in 1..(n * Len(s)) |-> s[((i - 1) % Len(s)) + 1]]

\* The upper-case letters of the texts, with their lower-case forms.
Lower ==
    [c \in {"A", "B", "C", "D", "E", "F", "X"} |->
        CASE c = "A" -> "a" [] c = "B" -> "b" [] c = "C" -> "c" [] c = "D" -> "d"
          [] c = "E" -> "e" [] c = "F" -> "f" [] OTHER -> "x"]

\* String.prototype.toLowerCase on one character
LowerChar(c) ==
    IF c \in DOMAIN Lower THEN Lower[c] ELSE c

\* String.prototype.toLowerCase
toLowerCase(s) ==
    [i \in 1..Len(s) |-> LowerChar(s[i])]

\* String.prototype.startsWith
startsWith(s, p) ==
    Len(s) >= Len(p) /\ SubSeq(s, 1, Len(p)) = p

HexDigits ==
    {"0", "1", "2", "3", "4", "5", "6", "7", "8", "9",
     "a", "b", "c", "d", "e", "f", "A", "B", "C", "D", "E", "F"}

\* The lexical shape ^0x[0-9a-fA-F]{64}$ of a transaction identifier.
IsTxHashShape(s) ==
    /\ Len(s) = 66
    /\ s[1] = "0" /\ s[2] = "x"
    /\ \A i \in 3..66 : s[i] \in HexDigits

Pfx0x ==
    <<"0", "x">>

\* String.prototype.includes on a message held as a sequence of words
includes(msg, frag) ==
    \E i \in 1..(Len(msg) - Len(frag) + 1) : SubSeq(msg, i, i + Len(frag) - 1) = frag

\* ------------------------------------------------ Authorization header
\* The header values a request may carry, by name.
Headers ==
    {"missing", "short", "nonhex", "paid", "test"}

\* The text of a header that is present.
HeaderText(h) ==
    CASE h = "short" -> Pfx0x \o <<"a", "b", "c">>
      [] h = "nonhex" -> Pfx0x \o Rep(<<"z">>, 64)
      [] h = "paid" -> Pfx0x \o Rep(<<"a", "B", "1", "2">>, 16)
      [] h = "test" -> Pfx0x \o Rep(<<"1", "2", "3", "4", "5", "6", "7", "8", "9", "0",
                                      "a", "b", "c", "d", "e", "f">>, 4)
      [] OTHER -> <<>>

\* !authHeader: the header is undefined or the empty string
HeaderFalsy(h) ==
    h = "missing" \/ Len(HeaderText(h)) = 0

\* The header matches ^0x[0-9a-fA-F]{64}$.
HeaderIsTxHash(h) ==
    ~HeaderFalsy(h) /\ IsTxHashShape(HeaderText(h))

\* x402: the guard of the 402 Payment Required return
HeaderRejected(h) ==
    HeaderFalsy(h) \/ ~startsWith(HeaderText(h), Pfx0x) \/ Len(HeaderText(h)) # HEADER_LENGTH

\* ------------------------------------------------------- addresses
Recipient ==
    <<"0", "x", "C", "4", "0", "f">>
OtherAddress ==
    <<"0", "x", "9", "9", "e", "e">>
Payer1 ==
    <<"0", "x", "A", "1">>
Payer2 ==
    <<"0", "x", "B", "2">>

\* ------------------------------------------------------ event logs
\* A log of a receipt: the emitting contract, the event its topics and data
\* decode to under the ERC20 Transfer ABI ("none" when decodeEventLog throws)
\* and the decoded arguments.
Logs ==
    { [address |-> USDC_BASE_ADDRESS, event |-> "Transfer", from |-> Payer1, to |-> Recipient, value |-> 999],
      [address |-> USDC_BASE_ADDRESS, event |-> "Transfer", from |-> Payer1, to |-> Recipient, value |-> 1000],
      [address |-> toLowerCase(USDC_BASE_ADDRESS), event |-> "Transfer", from |-> Payer2,
         to |-> toLowerCase(Recipient), value |-> 1001],
      [address |-> OtherAddress, event |-> "Transfer", from |-> Payer2, to |-> Recipient, value |-> 1000],
      [address |-> USDC_BASE_ADDRESS, event |-> "Transfer", from |-> Payer2, to |-> OtherAddress, value |-> 1000],
      [address |-> USDC_BASE_ADDRESS, event |-> "none", from |-> Payer2, to |-> Recipient, value |-> 1000] }

\* null, for a value that is otherwise an object
Null ==
    [null |-> TRUE]

\* decodeUSDCLog: null unless the log comes from the USDC contract and
\* decodeEventLog returns a Transfer
decodeUSDCLog(log) ==
    IF toLowerCase(log.address) # toLowerCase(USDC_BASE_ADDRESS) THEN Null
    ELSE IF log.event # "Transfer" THEN Null
    ELSE [from |-> log.from, to |-> log.to, value |-> log.value]

\* Mutant of Qualifies: the amount test is strict.
QualifiesStrict(log, expectedRecipient) ==
    \E decoded \in {decodeUSDCLog(log)} :
        /\ decoded # Null
        /\ toLowerCase(decoded.to) = toLowerCase(expectedRecipient)
        /\ decoded.value > MIN_PAYMENT_AMOUNT

\* verifyPayment: the body of the scan loop, Critical Checks 3 and 4
Qualifies(log, expectedRecipient) ==
    \E decoded \in {decodeUSDCLog(log)} :
        /\ decoded # Null
        /\ toLowerCase(decoded.to) = toLowerCase(expectedRecipient)
        /\ decoded.value >= MIN_PAYMENT_AMOUNT

RECURSIVE LastTransfer(_, _, _)
LastTransfer(logs, i, expectedRecipient) ==
    IF i > Len(logs) THEN Null
    ELSE LET later == LastTransfer(logs, i + 1, expectedRecipient) IN
         IF later # Null THEN later
         ELSE IF Qualifies(logs[i], expectedRecipient) THEN decodeUSDCLog(logs[i])
         ELSE Null

RECURSIVE FirstTransfer(_, _, _)
\* verifyPayment: for (const log of receipt.logs) ... break, from index i on
FirstTransfer(logs, i, expectedRecipient) ==
    IF i > Len(logs) THEN Null
    ELSE IF Qualifies(logs[i], expectedRecipient) THEN decodeUSDCLog(logs[i])
    ELSE FirstTransfer(logs, i + 1, expectedRecipient)

\* ----------------------------------------------------- ledger client
\* What client.getTransactionReceipt does: it returns a receipt or throws.
NotFoundError ==
    [kind |-> "throw", name |-> "TransactionReceiptNotFoundError",
     message |-> <<"Transaction", "receipt", "with", "hash", "could", "not", "be", "found">>]
NetworkError ==
    [kind |-> "throw", name |-> "HttpRequestError",
     message |-> <<"HTTP", "request", "failed", "fetch", "failed">>]
InvalidParamsError ==
    [kind |-> "throw", name |-> "InvalidParamsRpcError",
     message |-> <<"Invalid", "parameters", "were", "provided">>]
BlankError ==
    [kind |-> "throw", name |-> "Error", message |-> <<>>]

\* A transport failure whose text also says that something was not found.
GatewayNotFoundError ==
    [kind |-> "throw", name |-> "HttpRequestError",
     message |-> <<"HTTP", "request", "failed", "fetch", "failed", "resource", "not", "found">>]

RpcErrors ==
    {NotFoundError, NetworkError, InvalidParamsError, BlankError, GatewayNotFoundError}

Receipt(status, logs) ==
    [kind |-> "receipt", status |-> status, logs |-> logs]

\* The 16 hexadecimal digits after 0x that mark a placeholder hash.
PlaceholderPrefixes ==
    { <<"1", "2", "3", "4", "5", "6", "7", "8", "9", "0", "a", "b", "c", "d", "e", "f">>,
      Rep(<<"0">>, 16), Rep(<<"f">>, 16) }

isTestHashLiteralOnly(txHash) ==
    txHash = Pfx0x \o Rep(<<"1", "2", "3", "4", "5", "6", "7", "8", "9", "0",
                            "a", "b", "c", "d", "e", "f">>, 4)

\* Mutant of isTestHash: the pattern without its i flag.
isTestHashCaseSensitive(txHash) ==
    \E t \in {txHash} :
        \/ /\ Len(t) >= 18
           /\ SubSeq(t, 1, 2) = Pfx0x
           /\ SubSeq(t, 3, 18) \in PlaceholderPrefixes
        \/ t = Pfx0x \o Rep(<<"1", "2", "3", "4", "5", "6", "7", "8", "9", "0",
                              "a", "b", "c", "d", "e", "f">>, 4)

\* verifyPayment: isTestHash
isTestHash(txHash) ==
    \E t \in {txHash} :
        \/ /\ Len(t) >= 18
           /\ toLowerCase(SubSeq(t, 1, 2)) = Pfx0x
           /\ toLowerCase(SubSeq(t, 3, 18)) \in PlaceholderPrefixes
        \/ t = Pfx0x \o Rep(<<"1", "2", "3", "4", "5", "6", "7", "8", "9", "0",
                              "a", "b", "c", "d", "e", "f">>, 4)

\* verifyPayment: the calls it makes on the ledger, in order.  The client is
\* created and the receipt queried only past the placeholder test.
ledgerCalls(txHash) ==
    IF isTestHash(txHash) THEN <<>>
    ELSE <<"createPublicClient", "getTransactionReceipt">>

Invalid(error) ==
    [valid |-> FALSE, walletAddress |-> <<>>, error |-> error]

classifyErrorNetworkFirst(txHash, err) ==
    IF \/ includes(err.message, <<"fetch">>)
       \/ includes(err.message, <<"network">>)
       \/ includes(err.message, <<"timeout">>)
       \/ includes(err.message, <<"ECONNREFUSED">>)
    THEN Invalid(<<"Failed to connect to Base Mainnet RPC. Please try again later.">>)
    ELSE IF \/ includes(err.message, <<"could", "not", "be", "found">>)
            \/ includes(err.message, <<"Transaction", "receipt">>)
            \/ includes(err.message, <<"not", "found">>)
            \/ err.name = "TransactionReceiptNotFoundError"
    THEN Invalid(<<"Transaction receipt with hash \"">> \o txHash
                 \o <<"\" could not be found. The transaction may not be processed on a block yet, or the hash may be invalid. Please ensure the transaction has been confirmed on Base Mainnet.">>)
    ELSE IF err.message # <<>> THEN Invalid(err.message)
    ELSE Invalid(<<"Failed to verify transaction on blockchain">>)

\* verifyPayment: the catch block
classifyError(txHash, err) ==
    IF \/ includes(err.message, <<"could", "not", "be", "found">>)
       \/ includes(err.message, <<"Transaction", "receipt">>)
       \/ includes(err.message, <<"not", "found">>)
       \/ err.name = "TransactionReceiptNotFoundError"
    THEN Invalid(<<"Transaction receipt with hash \"">> \o txHash
                 \o <<"\" could not be found. The transaction may not be processed on a block yet, or the hash may be invalid. Please ensure the transaction has been confirmed on Base Mainnet.">>)
    ELSE IF \/ includes(err.message, <<"fetch">>)
            \/ includes(err.message, <<"network">>)
            \/ includes(err.message, <<"timeout">>)
            \/ includes(err.message, <<"ECONNREFUSED">>)
    THEN Invalid(<<"Failed to connect to Base Mainnet RPC. Please try again later.">>)
    ELSE IF err.message # <<>> THEN Invalid(err.message)
    ELSE Invalid(<<"Failed to verify transaction on blockchain">>)

\* verifyPayment(txHash, expectedRecipient), given what the ledger query does
verifyPaymentLogsFirst(txHash, expectedRecipient, rpc) ==
    IF isTestHash(txHash)
    THEN Invalid(<<"Invalid transaction hash: This appears to be a test/placeholder hash. Please use a real transaction hash from Base Mainnet.">>)
    ELSE IF rpc.kind = "throw" THEN classifyError(txHash, rpc)
    ELSE IF Len(rpc.logs) = 0 THEN Invalid(<<"Transaction contains no logs">>)
    ELSE IF rpc.status # "success" THEN Invalid(<<"Transaction failed or is pending">>)
    ELSE LET validTransfer == FirstTransfer(rpc.logs, 1, expectedRecipient) IN
         IF validTransfer = Null
         THEN Invalid(<<"No valid USDC transfer found to recipient address with sufficient amount">>)
         ELSE [valid |-> TRUE, walletAddress |-> validTransfer.from, error |-> <<>>]

verifyPayment(txHash, expectedRecipient, rpc) ==
    IF isTestHash(txHash)
    THEN Invalid(<<"Invalid transaction hash: This appears to be a test/placeholder hash. Please use a real transaction hash from Base Mainnet.">>)
    ELSE IF rpc.kind = "throw" THEN classifyError(txHash, rpc)
    ELSE IF rpc.status # "success" THEN Invalid(<<"Transaction failed or is pending">>)
    ELSE IF Len(rpc.logs) = 0 THEN Invalid(<<"Transaction contains no logs">>)
    ELSE LET validTransfer == FirstTransfer(rpc.logs, 1, expectedRecipient) IN
         IF validTransfer = Null
         THEN Invalid(<<"No valid USDC transfer found to recipient address with sufficient amount">>)
         ELSE [valid |-> TRUE, walletAddress |-> validTransfer.from, error |-> <<>>]

\* --------------------------------------------------- witness signer
\* BASIS_PRIVATE_KEY as the deployment may have set it.
KeyGood ==
    Pfx0x \o Rep(<<"a", "B", "1", "2">>, 16)

KeyBare ==
    Rep(<<"a", "B", "1", "2">>, 16)

PrivateKeys ==
    {<<>>, KeyGood, KeyBare, Pfx0x \o <<"a", "b", "c">>, Pfx0x \o Rep(<<"z">>, 64),
     Rep(<<"z">>, 64)}

\* /^0x[0-9a-fA-F]{64}$/
hexPattern(s) ==
    /\ Len(s) = 66
    /\ s[1] = "0" /\ s[2] = "x"
    /\ \A i \in 3..66 : s[i] \in HexDigits

\* The signing functions: signContent, signClassification, signProofOfCustody,
\* signDataIntegrity, signAuditTrail, signTimeline, signBadge, signRiskAssessment.
SignerKinds ==
    {"content", "classification", "custody", "integrity", "audit", "timeline",
     "badge", "risk"}

\* The signing functions that normalise the key before they use it.
Normalizing ==
    {"content", "risk"}

normalizedKey(kind, privateKey) ==
    IF kind \in Normalizing /\ ~startsWith(privateKey, Pfx0x)
    THEN Pfx0x \o privateKey
    ELSE privateKey

keyErrorMissingOnly(kind, privateKey) ==
    IF privateKey = <<>>
    THEN <<"CRITICAL: BASIS_PRIVATE_KEY is missing. Cannot notarize.">>
    ELSE <<>>

\* What the signing function throws over the key, <<>> when it throws nothing.
\* privateKeyToAccount throws for a key that is not 0x and 64 hexadecimal digits.
keyError(kind, privateKey) ==
    LET key == normalizedKey(kind, privateKey) IN
    IF privateKey = <<>>
    THEN <<"CRITICAL: BASIS_PRIVATE_KEY is missing. Cannot notarize.">>
    ELSE IF kind \in Normalizing /\ Len(key) # 66
    THEN <<"CRITICAL: BASIS_PRIVATE_KEY has invalid format. Expected 66 characters (0x + 64 hex), got ",
           ToString(Len(key)),
           ". Please ensure your private key is a valid hex string starting with 0x.">>
    ELSE IF kind \in Normalizing /\ ~hexPattern(key)
    THEN <<"CRITICAL: BASIS_PRIVATE_KEY contains invalid characters. Must be a valid hex string (0-9, a-f, A-F).">>
    ELSE IF ~hexPattern(key)
    THEN <<"private key must be 32 bytes, hex or bigint, not string">>
    ELSE <<>>

\* new Date().toISOString() at the t-th instant of the clock
toISOString(t) ==
    <<"2026-01-01T00:00:00.00", ToString(t), "Z">>

payloadWithSigner(kind, f, timestamp, now, key) ==
    <<"SIGNER:">> \o key \o <<":AT:">> \o toISOString(now) \o f.a \o f.b \o f.c

\* The canonical payload of each signing function.  timestamp is the argument
\* of signTimeline and signRiskAssessment, now the clock the others read.
payload(kind, f, timestamp, now, key) ==
    CASE kind = "content" -> f.a \o <<":">> \o toISOString(now) \o <<":">> \o f.b
      [] kind = "classification" ->
            <<"IMAGE_HASH:">> \o f.a \o <<":TOP_RESULT:">> \o f.b \o <<":CONFIDENCE:">> \o f.c
      [] kind = "custody" ->
            <<"I hold this data as of ">> \o toISOString(now) \o <<". Key: ">> \o f.a
                \o <<", Value: ">> \o f.b
      [] kind = "integrity" -> f.a \o <<":">> \o f.b \o <<":">> \o toISOString(now)
      [] kind = "audit" ->
            <<"FORMULA:">> \o f.a \o <<":INPUTS:">> \o f.b \o <<":RESULT:">> \o f.c
      [] kind = "timeline" ->
            <<"EVENT:">> \o f.a \o <<":TIME:">> \o timestamp \o <<":NONCE:">> \o f.c
      [] kind = "badge" ->
            <<"WALLET:">> \o f.a \o <<":STATUS:">> \o f.b \o <<":SESSION:">> \o f.c
      [] kind = "risk" ->
            <<"TARGET:">> \o f.a \o <<":SCORE:">> \o f.b \o <<":TIME:">> \o timestamp

\* keccak256(toHex(payload)): one hash for one payload
keccak256(p) ==
    <<"keccak256">> \o p

\* Mutant of sign: every certificate carries the signing instant.
signStampsNow(kind, f, timestamp, privateKey, now) ==
    LET thrown == keyError(kind, privateKey)
        key == normalizedKey(kind, privateKey)
        text == payload(kind, f, timestamp, now, key)
    IN
    IF thrown # <<>>
    THEN [threw |-> TRUE, message |-> thrown, payload |-> <<>>, proof |-> Null]
    ELSE [threw |-> FALSE, message |-> <<>>, payload |-> text,
          proof |-> [witness_id |-> kind,
                     timestamp |-> toISOString(now),
                     method |-> "ecdsa-secp256k1",
                     signer |-> <<"address of">> \o key,
                     hash |-> keccak256(text),
                     signature |-> <<"signed by">> \o key \o keccak256(text)]]

\* The signing function of the kind, called with the fields, the timestamp
\* argument (signTimeline, signRiskAssessment) and the key, at the instant now.
sign(kind, f, timestamp, privateKey, now) ==
    LET thrown == keyError(kind, privateKey)
        key == normalizedKey(kind, privateKey)
        text == payload(kind, f, timestamp, now, key)
    IN
    IF thrown # <<>>
    THEN [threw |-> TRUE, message |-> thrown, payload |-> <<>>, proof |-> Null]
    ELSE [threw |-> FALSE, message |-> <<>>, payload |-> text,
          proof |-> [witness_id |-> kind,
                     timestamp |-> IF kind = "risk" THEN timestamp ELSE toISOString(now),
                     method |-> "ecdsa-secp256k1",
                     signer |-> <<"address of">> \o key,
                     hash |-> keccak256(text),
                     signature |-> <<"signed by">> \o key \o keccak256(text)]]

\* The two executions that are compared.
Runs ==
    {"first", "second"}

\* The field values an action hands to its signing function.
Fields ==
    { [a |-> <<"https://a.example">>, b |-> <<"up">>, c |-> <<"0.9">>],
      [a |-> <<"https://b.example">>, b |-> <<"up">>, c |-> <<"0.9">>] }

\* ------------------------------------------------------ replay store
\* A record holds the value written and the seconds left of its TTL.  A store
\* call that throws has changed nothing.
\* The keys the gate can present to the store.
Keys ==
    Headers \ {"missing"}

\* What kv.get returns for a key that holds no record.
KV_NULL ==
    "null"

Absent ==
    [val |-> KV_NULL, ttl |-> 0]

\* kv.get(key)
KvGet(store, key) ==
    store[key].val

\* kv.put(key, value, { expirationTtl })
KvPut(store, key, value, expirationTtl) ==
    [store EXCEPT ![key] = [val |-> value, ttl |-> expirationTtl]]

\* kv.delete(key)
KvDelete(store, key) ==
    [store EXCEPT ![key] = Absent]

\* The store after d seconds: records whose expirationTtl has run out are gone.
KvExpire(store, d) ==
    [k \in Keys |-> IF store[k].ttl <= d THEN Absent
                    ELSE [store[k] EXCEPT !.ttl = @ - d]]

\* The amounts of time by which the clock advances in one step.
Deltas ==
    {PENDING_TTL - 1, PENDING_TTL, REPLAY_TTL - PENDING_TTL}

\* --------------------------------------------------------- requests
Req ==
    1..NumReq

VARIABLES
    env,          \* the bindings: BASIS_WALLET_ADDRESS and BASIS_PRIVATE_KEY (<<>> when
                  \* unset), BASIS_KV
    txid,         \* the transaction identifier the clients of this behaviour present
    kv,           \* the replay store: key -> [val, ttl]
    ticks,        \* how many times the clock has advanced
    pc,           \* where each request stands in x402
    hdr,          \* the Authorization header of each request
    existingHash, \* what kv.get returned to the request ("unread" before)
    verification, \* what verifyPayment returned to the request
    resp,         \* the response the gate returned, if any
    ctx,          \* c.var: wallet_address and tx_hash
    log,          \* the store calls, verifier calls and next() of each request, in order
    window,       \* seconds left of the 24 hours after the last admission of a key
    admits,       \* admissions of a key within its running 24-hour window
    sawWindow,    \* the request arrived while the key's 24-hour window was running
    vIn,          \* verifyPayment called on its own: the arguments
    vOut,         \* verifyPayment called on its own: the result
    vCalls,       \* verifyPayment called on its own: the ledger calls it made
    runs,         \* the witness signer called on its own: its executions
    work,         \* what the handler of an admitted request met: body, fetch, log sink
    reply,        \* the response of the handler, if it ran
    logWrite,     \* the background log write of the request
    route,        \* the endpoint of a request that came through the mock gate
    writer,       \* per identifier, the request whose put wrote the current record (0: none)
    calc          \* the call of executeFormula or of /audit_math, and what it gave

vars ==
    <<env, txid, kv, ticks, pc, hdr, existingHash, verification, resp, ctx, log,
      window, admits, sawWindow, vIn, vOut, vCalls, runs,
      work, reply, logWrite, route, writer, calc>>

gateVars ==
    <<env, txid, kv, ticks, pc, hdr, existingHash, verification, resp, ctx, log,
      window, admits, sawWindow, route, writer>>

handlerVars ==
    <<work, reply, logWrite>>

\* The variables the gate never touches.
aside ==
    <<vIn, vOut, vCalls, runs, handlerVars, route, calc>>

NoVerification ==
    [valid |-> FALSE, walletAddress |-> <<>>, error |-> <<"not called">>]

NoResponse ==
    [status |-> 0, error |-> "", message |-> <<>>, recipient |-> <<>>]

NoReply ==
    [status |-> 0, error |-> "", message |-> <<>>, proof |-> Null]

Unset ==
    [wallet_address |-> <<>>, tx_hash |-> <<>>]

Environments ==
    { [wallet |-> Recipient, kv |-> TRUE, privateKey |-> KeyGood],
      [wallet |-> <<>>, kv |-> TRUE, privateKey |-> KeyGood],
      [wallet |-> Recipient, kv |-> FALSE, privateKey |-> KeyGood] }

InitGate ==
    /\ kv = [k \in Keys |-> Absent]
    /\ ticks = 0
    /\ pc = [r \in Req |-> "idle"]
    /\ hdr = [r \in Req |-> "missing"]
    /\ existingHash = [r \in Req |-> "unread"]
    /\ verification = [r \in Req |-> NoVerification]
    /\ resp = [r \in Req |-> NoResponse]
    /\ ctx = [r \in Req |-> Unset]
    /\ log = [r \in Req |-> <<>>]
    /\ window = [k \in Keys |-> 0]
    /\ admits = [k \in Keys |-> 0]
    /\ sawWindow = [r \in Req |-> FALSE]
    /\ work = [r \in Req |-> Null]
    /\ reply = [r \in Req |-> NoReply]
    /\ logWrite = [r \in Req |-> "none"]
    /\ route = [r \in Req |-> "none"]
    /\ writer = [k \in Keys |-> 0]

\* The headers that carry a transaction identifier the gate takes to the store.
TxHeaders ==
    {"nonhex", "paid", "test"}

\* The headers the requests of a behaviour carry: a behaviour follows the
\* requests that present one transaction identifier, and those that present
\* none the gate accepts.
Offered ==
    (Headers \ TxHeaders) \cup {txid}

Init ==
    /\ env \in Environments
    /\ txid \in TxHeaders
    /\ InitGate
    /\ vIn = Null
    /\ vOut = Null
    /\ vCalls = <<>>
    /\ runs = [x \in Runs |-> Null]
    /\ calc = Null

\* ------------------------------------------------------- responses
PAYMENT_REQUIRED_MESSAGE ==
    <<"You must attach a valid x402 transaction hash to the Authorization header.">>

PaymentRequired402(wallet) ==
    [status |-> 402, error |-> "Payment Required", message |-> PAYMENT_REQUIRED_MESSAGE,
     recipient |-> IF wallet # <<>> THEN wallet ELSE <<"0x_SETUP_YOUR_WALLET_SECRET">>]

ConfigurationError500(what) ==
    [status |-> 500, error |-> "Configuration Error", message |-> <<what>>, recipient |-> <<>>]

PaymentReuse402 ==
    [status |-> 402, error |-> "Payment Reuse Detected",
     message |-> <<"This transaction hash has already been used. Each payment can only be used once.">>,
     recipient |-> <<>>]

\* Mutant of ReplayDetected402: a lock that is still pending is told apart.
ReplayDetected402Telling(existing) ==
    [status |-> 402, error |-> "Payment Reuse Detected",
     message |-> IF existing = "pending"
                 THEN <<"This transaction hash is being verified by another request.">>
                 ELSE <<"This transaction hash has already been used. Each payment can only be used once.">>,
     recipient |-> <<>>]

\* x402: the response returned when existingHash !== null
ReplayDetected402(existing) ==
    PaymentReuse402

LockFailed500 ==
    [status |-> 500, error |-> "Internal Server Error",
     message |-> <<"Failed to process payment verification">>, recipient |-> <<>>]

VerificationFailed402(v, wallet) ==
    [status |-> 402, error |-> "Payment Verification Failed",
     message |-> IF v.error # <<>> THEN v.error
                 ELSE <<"Transaction does not meet payment requirements">>,
     recipient |-> wallet]

RecordFailed500 ==
    [status |-> 500, error |-> "Internal Server Error",
     message |-> <<"Payment verified but failed to record usage. Please contact support.">>,
     recipient |-> <<>>]

attachHashOnly(v, txHash) ==
    [wallet_address |-> <<>>, tx_hash |-> txHash]

\* x402 step 6: c.set("wallet_address", ...) and c.set("tx_hash", ...)
attach(v, txHash) ==
    [wallet_address |-> v.walletAddress, tx_hash |-> txHash]

\* ------------------------------------------------------------ ledger
\* The receipt of the transaction a paying client presents.
PaidReceipt ==
    Receipt("success",
            << [address |-> USDC_BASE_ADDRESS, event |-> "Transfer", from |-> Payer1,
                to |-> Recipient, value |-> 1000] >>)

\* What the ledger query can do for the transaction a header names: the paid
\* transaction is found unless the connection fails, the placeholder is not on
\* the ledger and a value that is no hash is refused.
LedgerOutcomes(h) ==
    CASE h = "paid" -> {PaidReceipt, NetworkError}
      [] h = "test" -> {NotFoundError}
      [] OTHER -> {InvalidParamsError}

\* ---------------------------------------------------- x402: branches
\* Mutant of ReplayDetected: only a pending record counts.
ReplayDetectedPendingOnly(existing) ==
    existing = "pending"

\* Mutant of ReplayDetected: only a used record counts.
ReplayDetectedUsedOnly(existing) ==
    existing = "used"

\* x402: existingHash !== null
ReplayDetected(existing) ==
    existing # KV_NULL

\* Mutant of AfterGet: a failed read is taken for an absent record.
AfterGetFailOpen(result) ==
    IF result = "throw" THEN "put_pending"
    ELSE IF ReplayDetected(result) THEN "reuse402"
    ELSE "put_pending"

\* x402: after await kv.get, result being "throw" or the value returned
AfterGet(result) ==
    IF result = "throw" THEN "error500"
    ELSE IF ReplayDetected(result) THEN "reuse402"
    ELSE "put_pending"

\* Mutant of AfterPendingPut: the catch block lets the request go on.
AfterPendingPutFailOpen(threw) ==
    "verify"

\* x402: after await kv.put(txHash, "pending"), and the catch block around it
AfterPendingPut(threw) ==
    IF threw THEN "error500" ELSE "verify"

\* Mutant of AfterVerify: an invalid verification is thrown, not returned.
AfterVerifyThrows(v) ==
    IF ~v.valid THEN "escaped" ELSE "put_used"

\* Mutant of AfterVerify: the result of the verification is not looked at.
AfterVerifyAdmits(v) ==
    "put_used"

\* x402: if (!verification.valid)
AfterVerify(v) ==
    IF ~v.valid THEN "release" ELSE "put_used"

\* Mutant of AfterRelease: a failed delete is escalated.
AfterReleaseEscalate(threw) ==
    IF threw THEN "error500" ELSE "failed402"

\* x402: after the try/catch around kv.delete
AfterRelease(threw) ==
    "failed402"

\* Mutant of AfterUsedPut: the failed write is logged and the request goes on.
AfterUsedPutFailOpen(threw) ==
    "next"

\* x402: after await kv.put(txHash, "used"), and the catch block around it
AfterUsedPut(threw) ==
    IF threw THEN "record500" ELSE "next"

\* Mutant of LockPut: the lock is written with the 24-hour TTL.
LockPutLongTtl(store, key) ==
    KvPut(store, key, "pending", REPLAY_TTL)

LockPutIfAbsent(store, key) ==
    IF store[key] = Absent THEN KvPut(store, key, "pending", PENDING_TTL) ELSE store

\* x402: kv.put(txHash, "pending", { expirationTtl: PENDING_TTL })
LockPut(store, key) ==
    KvPut(store, key, "pending", PENDING_TTL)

\* x402: kv.put(txHash, "used", { expirationTtl: REPLAY_TTL })
MarkUsed(store, key) ==
    KvPut(store, key, "used", REPLAY_TTL)

\* Mutant of UsedPutStore: the catch block releases the lock.
UsedPutStoreReleases(store, key, threw) ==
    IF threw THEN KvDelete(store, key) ELSE MarkUsed(store, key)

\* x402 step 3: the store after kv.put(txHash, "used") returned or threw; the
\* catch block makes no call on the store.
UsedPutStore(store, key, threw) ==
    IF threw THEN store ELSE MarkUsed(store, key)

\* ----------------------------------------------------- x402: steps
\* Requests are interchangeable: they arrive in the order of their numbers.
Arrives(r) ==
    /\ pc[r] = "idle"
    /\ \A q \in Req : q < r => pc[q] # "idle"

Arrived(r, h) ==
    /\ hdr' = [hdr EXCEPT ![r] = h]
    /\ sawWindow' = [sawWindow EXCEPT ![r] = h \in Keys /\ window[h] > 0]

\* x402 returns 402 Payment Required for the header.
PaymentRequired(r) ==
    \E h \in Offered :
        /\ Arrives(r)
        /\ HeaderRejected(h)
        /\ Arrived(r, h)
        /\ pc' = [pc EXCEPT ![r] = "done"]
        /\ resp' = [resp EXCEPT ![r] = PaymentRequired402(env.wallet)]
        /\ UNCHANGED <<env, txid, kv, ticks, existingHash, verification, ctx, log,
                       window, admits, aside, writer>>

\* x402 returns 500 Configuration Error.
ConfigurationError(r) ==
    \E h \in Offered :
        /\ Arrives(r)
        /\ ~HeaderRejected(h)
        /\ ~(env.wallet # <<>> /\ env.kv)
        /\ Arrived(r, h)
        /\ pc' = [pc EXCEPT ![r] = "done"]
        /\ resp' = [resp EXCEPT ![r] =
                      IF env.wallet = <<>>
                      THEN ConfigurationError500("BASIS_WALLET_ADDRESS not configured")
                      ELSE ConfigurationError500("BASIS_KV not configured")]
        /\ UNCHANGED <<env, txid, kv, ticks, existingHash, verification, ctx, log,
                       window, admits, aside, writer>>

\* x402 step 1, first half: kv.get(txHash) and what follows without an await.
ReplayCheck(r) ==
    \E h \in Offered, threw \in BOOLEAN :
        LET result == IF threw THEN "throw" ELSE KvGet(kv, h)
            to == AfterGet(result)
        IN
        /\ Arrives(r)
        /\ ~HeaderRejected(h)
        /\ env.wallet # <<>> /\ env.kv
        /\ Arrived(r, h)
        /\ existingHash' = [existingHash EXCEPT ![r] = IF threw THEN "unread" ELSE result]
        /\ log' = [log EXCEPT ![r] = Append(@, IF threw THEN "get!" ELSE "get")]
        /\ pc' = [pc EXCEPT ![r] = IF to = "put_pending" THEN "put_pending" ELSE "done"]
        /\ resp' = [resp EXCEPT ![r] =
                      CASE to = "error500" -> LockFailed500
                        [] to = "reuse402" -> ReplayDetected402(result)
                        [] OTHER -> @]
        /\ UNCHANGED <<env, txid, kv, ticks, verification, ctx, window, admits, aside, writer>>

\* x402 step 1, second half: the lock is written.
PendingPut(r) ==
    \E threw \in BOOLEAN :
        LET to == AfterPendingPut(threw) IN
        /\ pc[r] = "put_pending"
        /\ kv' = IF threw THEN kv ELSE LockPut(kv, hdr[r])
        /\ log' = [log EXCEPT ![r] = Append(@, IF threw THEN "put_pending!" ELSE "put_pending")]
        /\ pc' = [pc EXCEPT ![r] = IF to = "verify" THEN "verify" ELSE "done"]
        /\ resp' = [resp EXCEPT ![r] = IF to = "verify" THEN @ ELSE LockFailed500]
        /\ UNCHANGED <<env, txid, ticks, hdr, existingHash, verification, ctx,
                       window, admits, sawWindow, aside>>
        /\ writer' = IF threw THEN writer ELSE [writer EXCEPT ![hdr[r]] = r]

\* x402 step 2: verifyPayment(txHash, basisWalletAddress).
Verify(r) ==
    /\ pc[r] = "verify"
    /\ log' = [log EXCEPT ![r] = Append(@, "verify")]
    /\ UNCHANGED <<env, txid, kv, ticks, hdr, existingHash, resp, ctx,
                   window, admits, sawWindow, aside, writer>>
    /\ \E rpc \in LedgerOutcomes(hdr[r]) :
          \E v \in {verifyPayment(HeaderText(hdr[r]), env.wallet, rpc)} :
              /\ verification' = [verification EXCEPT ![r] = v]
              /\ pc' = [pc EXCEPT ![r] = AfterVerify(v)]

\* x402: the lock is released after a failed verification.
Release(r) ==
    \E threw \in BOOLEAN :
        LET to == AfterRelease(threw) IN
        /\ pc[r] = "release"
        /\ kv' = IF threw THEN kv ELSE KvDelete(kv, hdr[r])
        /\ log' = [log EXCEPT ![r] = Append(@, IF threw THEN "delete!" ELSE "delete")]
        /\ pc' = [pc EXCEPT ![r] = "done"]
        /\ resp' = [resp EXCEPT ![r] =
                      IF to = "failed402"
                      THEN VerificationFailed402(verification[r], env.wallet)
                      ELSE LockFailed500]
        /\ UNCHANGED <<env, txid, ticks, hdr, existingHash, verification, ctx,
                       window, admits, sawWindow, aside>>
        /\ writer' = IF threw THEN writer ELSE [writer EXCEPT ![hdr[r]] = 0]

\* x402 steps 3 and 4: the record is marked used, the context is filled and
\* next() is called.
UsedPut(r) ==
    \E threw \in BOOLEAN :
        LET to == AfterUsedPut(threw)
            k == hdr[r]
        IN
        /\ pc[r] = "put_used"
        /\ kv' = UsedPutStore(kv, k, threw)
        /\ log' = [log EXCEPT ![r] =
                     @ \o <<IF threw THEN "put_used!" ELSE "put_used">>
                       \o (IF to = "next" THEN <<"next">> ELSE <<>>)]
        /\ pc' = [pc EXCEPT ![r] = IF to = "next" THEN "admitted" ELSE "done"]
        /\ resp' = [resp EXCEPT ![r] = IF to = "next" THEN @ ELSE RecordFailed500]
        /\ ctx' = [ctx EXCEPT ![r] =
                     IF to = "next" THEN attach(verification[r], HeaderText(k)) ELSE @]
        /\ window' = IF to = "next" THEN [window EXCEPT ![k] = REPLAY_TTL] ELSE window
        /\ admits' = IF to = "next" THEN [admits EXCEPT ![k] = @ + 1] ELSE admits
        /\ UNCHANGED <<env, txid, ticks, hdr, existingHash, verification, sawWindow, aside>>
        /\ writer' = IF threw THEN writer ELSE [writer EXCEPT ![hdr[r]] = r]

\* The worker running a request is stopped between two awaits.
Crash(r) ==
    /\ pc[r] \in {"put_pending", "verify", "release", "put_used"}
    /\ pc' = [pc EXCEPT ![r] = "crashed"]
    /\ UNCHANGED <<env, txid, kv, ticks, hdr, existingHash, verification, resp, ctx, log,
                   window, admits, sawWindow, aside, writer>>

\* d seconds pass: the store drops the records whose TTL has run out.
Tick(d) ==
    /\ ticks < MaxTicks
    /\ ticks' = ticks + 1
    /\ kv' = KvExpire(kv, d)
    /\ window' = [k \in Keys |-> IF window[k] <= d THEN 0 ELSE window[k] - d]
    /\ admits' = [k \in Keys |-> IF window[k] <= d THEN 0 ELSE admits[k]]
    /\ UNCHANGED <<env, txid, pc, hdr, existingHash, verification, resp, ctx, log,
                   sawWindow, aside>>
    /\ writer' = [k \in Keys |-> IF kv[k].ttl <= d THEN 0 ELSE writer[k]]

Enter(r) ==
    PaymentRequired(r) \/ ConfigurationError(r) \/ ReplayCheck(r)

Step(r) ==
    PendingPut(r) \/ Verify(r) \/ Release(r) \/ UsedPut(r) \/ Crash(r)

Next ==
    \/ \E r \in Req : Enter(r) \/ Step(r)
    \/ \E d \in Deltas : Tick(d)

Spec ==
    Init /\ [][Next]_vars

\* No request is in flight.
Quiet ==
    \A q \in Req : pc[q] \in {"idle", "done", "admitted", "crashed", "returned", "sent"}

\* Requests that do not overlap: one arrives only when no other is in flight.
SeqNext ==
    \/ \E r \in Req : (Quiet /\ Enter(r)) \/ Step(r)
    \/ \E d \in Deltas : Tick(d)

SeqSpec ==
    Init /\ [][SeqNext]_vars

\* The call a request waits for returns or throws.
Returns(r) ==
    PendingPut(r) \/ Verify(r) \/ Release(r) \/ UsedPut(r)

LiveNext ==
    \/ \E r \in Req : (Quiet /\ Enter(r)) \/ Returns(r)
    \/ \E d \in Deltas : Tick(d)

\* Every store call and every ledger query eventually returns or throws: no
\* worker is stopped, and an awaited call that can return does.
LiveSpec ==
    Init /\ [][LiveNext]_vars /\ \A r \in Req : WF_vars(Returns(r))

\* The gate serving a request that is not among Req, in another isolate,
\* writes or releases the record of the identifier.
ForeignWrite ==
    \E rec \in {[val |-> "pending", ttl |-> PENDING_TTL],
                [val |-> "used", ttl |-> REPLAY_TTL], Absent} :
        /\ Quiet
        /\ env.kv
        /\ kv[txid] # rec
        /\ kv' = [kv EXCEPT ![txid] = rec]
        /\ UNCHANGED <<env, txid, ticks, pc, hdr, existingHash, verification, resp, ctx,
                       log, window, admits, sawWindow, aside>>
        /\ writer' = [writer EXCEPT ![txid] = 0]

ForeignNext ==
    SeqNext \/ ForeignWrite

\* Requests that do not overlap, among the writes of requests served elsewhere.
ForeignSpec ==
    Init /\ [][ForeignNext]_vars

\* -------------------------------------------- Fetch: POST /verify_url
\* The request body as zValidator finds it.
Bodies ==
    {"valid", "invalid"}

\* What performFetch returns.
FetchResults ==
    { [status |-> 200, content |-> <<"page text">>, error |-> <<>>],
      [status |-> 200, content |-> <<>>, error |-> <<>>],
      [status |-> 404, content |-> <<>>, error |-> <<"Target refused connection: ", "Not Found">>],
      [status |-> 504, content |-> <<>>, error |-> <<"Network error: Failed to fetch the requested URL">>] }

\* What logRequest finds: no execution context, no Supabase credentials, or both.
LogSinks ==
    {"no executionCtx", "no credentials", "ready"}

logRequestAwaited(sink) ==
    IF sink = "ready" THEN "threw" ELSE "skipped"

\* logRequest: the write is skipped or handed to executionCtx.waitUntil.
logRequest(sink) ==
    IF sink = "ready" THEN "scheduled" ELSE "skipped"

\* What the scheduled write comes to: stored, an error returned by the insert,
\* or an exception, which the task catches.
LogOutcomes ==
    {"stored", "error", "threw"}

Replied(status, error, message, proof) ==
    [status |-> status, error |-> error, message |-> message, proof |-> proof]

verify_urlSignsAnyway(body, fetchResult, privateKey, now) ==
    LET signed == sign("content", [a |-> <<"https://a.example">>, b |-> fetchResult.content,
                                   c |-> <<>>], <<>>, KeyGood, now)
    IN [events |-> <<"validate", "action!", "sign", "log">>, logged |-> 200,
        reply |-> Replied(200, "", <<>>, signed.proof)]

\* Mutant of verify_url: a handler that gives the payment back when it fails.
verify_urlReleasesLock(body, fetchResult, privateKey, now) ==
    [events |-> <<"validate", "action!", "kv.delete", "log">>, logged |-> fetchResult.status,
     reply |-> Replied(fetchResult.status, "", fetchResult.error, Null)]

\* The handler of /verify_url behind zValidator: the steps it takes, the
\* response it returns and the status it hands to logRequest (0: no call).
verify_url(body, fetchResult, privateKey, now) ==
    IF body # "valid"
    THEN [events |-> <<"validate!">>, logged |-> 0,
          reply |-> Replied(400, "ZodError", <<"Invalid input">>, Null)]
    ELSE IF fetchResult.status # 200 \/ fetchResult.content = <<>>
    THEN [events |-> <<"validate", "action!", "log">>, logged |-> fetchResult.status,
          reply |-> Replied(fetchResult.status, "", fetchResult.error, Null)]
    ELSE IF privateKey = <<>>
    THEN [events |-> <<"validate", "action", "log">>, logged |-> 500,
          reply |-> Replied(500, "Configuration Error",
                            <<"BASIS_PRIVATE_KEY not configured. Cannot create witness proof.">>,
                            Null)]
    ELSE LET signed == sign("content", [a |-> <<"https://a.example">>, b |-> fetchResult.content,
                                        c |-> <<>>], <<>>, privateKey, now)
         IN IF signed.threw
            THEN [events |-> <<"validate", "action", "sign!", "log">>, logged |-> 500,
                  reply |-> Replied(500, "Internal Server Error",
                                    <<"An unexpected error occurred while processing your request">>,
                                    Null)]
            ELSE [events |-> <<"validate", "action", "sign", "log">>, logged |-> 200,
                  reply |-> Replied(200, "", <<>>, signed.proof)]

\* The store after the steps of a handler: the calls on BASIS_KV among them
\* are carried out.  (performFetch, signContent and logRequest make none.)
storeAfterRefunds(events, store, key) ==
    IF \E i \in 1..Len(events) : events[i] \in {"validate!", "action!", "sign!"}
    THEN KvDelete(store, key)
    ELSE store

storeAfter(events, store, key) ==
    IF \E i \in 1..Len(events) : events[i] = "kv.delete" THEN KvDelete(store, key)
    ELSE store

\* The variables of the gate that the handler leaves alone.
storeVars ==
    <<env, txid, kv, ticks, hdr, existingHash, verification, resp, ctx, window, admits,
      sawWindow, route, writer>>

\* zValidator and the handler run for a request the gate has let through.
\* (The clock of the replay store stands still in FetchSpec.)
Handle(r) ==
    \E body \in Bodies, fetchResult \in FetchResults, sink \in LogSinks :
        LET h == verify_url(body, fetchResult, env.privateKey, ticks) IN
        /\ pc[r] = "admitted"
        /\ work' = [work EXCEPT ![r] = [body |-> body, fetchResult |-> fetchResult, sink |-> sink]]
        /\ log' = [log EXCEPT ![r] = @ \o h.events \o <<"return">>]
        /\ reply' = [reply EXCEPT ![r] = h.reply]
        /\ logWrite' = [logWrite EXCEPT ![r] = IF h.logged = 0 THEN "none" ELSE logRequest(sink)]
        /\ pc' = [pc EXCEPT ![r] = "returned"]
        /\ kv' = storeAfter(h.events, kv, hdr[r])
        /\ UNCHANGED <<env, txid, ticks, hdr, existingHash, verification, resp, ctx, window,
                       admits, sawWindow, route, writer, vIn, vOut, vCalls, runs, calc>>

\* The response reaches the client.
Send(r) ==
    /\ pc[r] = "returned"
    /\ pc' = [pc EXCEPT ![r] = "sent"]
    /\ UNCHANGED <<storeVars, log, aside>>

\* The task handed to waitUntil runs: the insert into request_logs.
LogWrite(r) ==
    \E outcome \in LogOutcomes :
        /\ logWrite[r] = "scheduled"
        /\ logWrite' = [logWrite EXCEPT ![r] = outcome]
        /\ UNCHANGED <<storeVars, pc, log, vIn, vOut, vCalls, runs, work, reply, calc>>

FetchInit ==
    /\ env \in Environments
                 \cup {[wallet |-> Recipient, kv |-> TRUE, privateKey |-> k] : k \in PrivateKeys}
    /\ txid \in TxHeaders
    /\ InitGate
    /\ vIn = Null
    /\ vOut = Null
    /\ vCalls = <<>>
    /\ runs = [x \in Runs |-> Null]
    /\ calc = Null

FetchNext ==
    \/ \E r \in Req : (Quiet /\ Enter(r)) \/ Step(r)
    \/ \E r \in Req : Handle(r) \/ Send(r) \/ LogWrite(r)

FetchSpec ==
    FetchInit /\ [][FetchNext]_vars

\* ------------------------------------------------- x402, mock version
\* The endpoints whose entry points import the mock gate.
MockGated ==
    {"/classify", "/set", "/get", "/audit_math", "/timestamp", "/issue_badge"}

\* mock x402: isValidPayment
isValidPayment(h) ==
    ~HeaderFalsy(h) /\ startsWith(HeaderText(h), Pfx0x) /\ Len(HeaderText(h)) = HEADER_LENGTH

\* mock x402 returns 402 Payment Required.
MockPaymentRequired(r) ==
    \E h \in Offered, endpoint \in MockGated :
        /\ Arrives(r)
        /\ ~isValidPayment(h)
        /\ Arrived(r, h)
        /\ route' = [route EXCEPT ![r] = endpoint]
        /\ pc' = [pc EXCEPT ![r] = "done"]
        /\ resp' = [resp EXCEPT ![r] = PaymentRequired402(env.wallet)]
        /\ UNCHANGED <<env, txid, kv, ticks, existingHash, verification, ctx, log,
                       window, admits, vIn, vOut, vCalls, runs, handlerVars, writer, calc>>

\* mock x402 calls next().
MockAdmitted(r) ==
    \E h \in Offered, endpoint \in MockGated :
        /\ Arrives(r)
        /\ isValidPayment(h)
        /\ Arrived(r, h)
        /\ route' = [route EXCEPT ![r] = endpoint]
        /\ log' = [log EXCEPT ![r] = Append(@, "next")]
        /\ pc' = [pc EXCEPT ![r] = "admitted"]
        /\ window' = [window EXCEPT ![h] = REPLAY_TTL]
        /\ admits' = [admits EXCEPT ![h] = @ + 1]
        /\ UNCHANGED <<env, txid, kv, ticks, existingHash, verification, resp, ctx,
                       vIn, vOut, vCalls, runs, handlerVars, writer, calc>>

MockNext ==
    \E r \in Req : MockPaymentRequired(r) \/ MockAdmitted(r)

MockSpec ==
    Init /\ [][MockNext]_vars

\* --------------------------------------------- verifyPayment on its own
RECURSIVE SeqsUpTo(_, _)
\* The sequences over S of length at most n
SeqsUpTo(S, n) ==
    IF n = 0 THEN {<<>>}
    ELSE LET shorter == SeqsUpTo(S, n - 1) IN
         shorter \cup {Append(s, x) : s \in {t \in shorter : Len(t) = n - 1}, x \in S}

VerifyHashes ==
    {HeaderText("paid"), HeaderText("test"), HeaderText("nonhex"),
     Pfx0x \o Rep(<<"0">>, 64), Pfx0x \o Rep(<<"f">>, 64)}

VerifyRecipients ==
    {Recipient, toLowerCase(Recipient), OtherAddress}

VerifyRpc ==
    {Receipt(s, logs) : s \in {"success", "reverted"}, logs \in SeqsUpTo(Logs, MaxLogs)}
        \cup RpcErrors

VerifyInit ==
    /\ env = [wallet |-> Recipient, kv |-> TRUE, privateKey |-> KeyGood]
    /\ txid = "paid"
    /\ InitGate
    /\ vIn = Null
    /\ vOut = Null
    /\ vCalls = <<>>
    /\ runs = [x \in Runs |-> Null]
    /\ calc = Null

CallVerifyPayment ==
    \E txHash \in VerifyHashes, expectedRecipient \in VerifyRecipients, rpc \in VerifyRpc :
        /\ vIn = Null
        /\ vIn' = [txHash |-> txHash, expectedRecipient |-> expectedRecipient, rpc |-> rpc]
        /\ vOut' = verifyPayment(txHash, expectedRecipient, rpc)
        /\ vCalls' = ledgerCalls(txHash)
        /\ UNCHANGED <<gateVars, handlerVars, runs, calc>>

VerifyNext ==
    CallVerifyPayment

VerifySpec ==
    VerifyInit /\ [][VerifyNext]_vars

\* ------------------------------------------ the signing functions alone
SignInit ==
    /\ env \in {[wallet |-> Recipient, kv |-> TRUE, privateKey |-> k] : k \in PrivateKeys}
    /\ txid = "paid"
    /\ InitGate
    /\ vIn = Null
    /\ vOut = Null
    /\ vCalls = <<>>
    /\ runs = [x \in Runs |-> Null]
    /\ calc = Null

\* One execution of a signing function, at the instant the clock shows.
SignRun(x) ==
    \E kind \in SignerKinds, f \in Fields, timestamp \in {toISOString(0), toISOString(1)} :
        /\ runs[x] = Null
        /\ x = "second" => runs["first"] # Null
        /\ runs' = [runs EXCEPT ![x] =
                      [kind |-> kind, fields |-> f, timestamp |-> timestamp, at |-> ticks,
                       out |-> sign(kind, f, timestamp, env.privateKey, ticks)]]
        /\ UNCHANGED <<gateVars, handlerVars, vIn, vOut, vCalls, calc>>

SignNext ==
    \/ \E x \in Runs : SignRun(x)
    \/ \E d \in Deltas : Tick(d)

SignSpec ==
    SignInit /\ [][SignNext]_vars

\* ------------------------------------------------------- /audit_math
\* A JavaScript value handed over as an input: its type and, for a number and
\* for the number a string converts to, whether it is finite.
Num(n) ==
    [type |-> "number", is |-> "finite", n |-> n]

NaNValue ==
    [type |-> "number", is |-> "NaN", n |-> 0]

InfinityValue ==
    [type |-> "number", is |-> "Infinity", n |-> 0]

\* The string that Number() converts to the number v
Str(v) ==
    [v EXCEPT !.type = "string"]

\* Number(value)
Number(value) ==
    [value EXCEPT !.type = "number"]

\* typeof value !== "number" || isNaN(value) || !isFinite(value), negated
isFiniteNumber(value) ==
    value.type = "number" /\ value.is = "finite"

\* Properties every object literal inherits from Object.prototype.
ObjectPrototype ==
    {"toString"}

\* key in obj: own properties and inherited ones
In(key, obj) ==
    key \in DOMAIN obj \/ key \in ObjectPrototype

\* Two of the hard-coded formulas; order is the order of Object.entries.
FORMULA_LIBRARY ==
    [roi |->
        [name |-> "roi",
         order |-> <<"initial_investment", "current_value">>,
         inputs |-> [initial_investment |-> [required |-> TRUE],
                     current_value |-> [required |-> TRUE]],
         formula |-> "((current_value - initial_investment) / initial_investment) * 100"],
     present_value |->
        [name |-> "present_value",
         order |-> <<"future_value", "discount_rate", "periods">>,
         inputs |-> [future_value |-> [required |-> TRUE],
                     discount_rate |-> [required |-> TRUE],
                     periods |-> [required |-> TRUE]],
         formula |-> "future_value / ((1 + discount_rate) ^ periods)"]]

\* What FORMULA_LIBRARY[name] gives for a name found on Object.prototype: a
\* function, which is truthy and has no inputs property.
Inherited ==
    [inherited |-> TRUE]

\* getFormula: FORMULA_LIBRARY[name] || null
getFormula(name) ==
    IF name \in DOMAIN FORMULA_LIBRARY THEN FORMULA_LIBRARY[name]
    ELSE IF name \in ObjectPrototype THEN Inherited
    ELSE Null

\* mathjs evaluate(formula.formula, validatedInputs): the quotient, kept as
\* numerator and denominator; a division by zero gives NaN or Infinity.
evaluate(formula, scope) ==
    LET q == IF formula.name = "roi"
             THEN [num |-> (scope.current_value.n - scope.initial_investment.n) * 100,
                   den |-> scope.initial_investment.n]
             ELSE [num |-> scope.future_value.n,
                   den |-> (1 + scope.discount_rate.n) ^ scope.periods.n]
    IN [type |-> "number",
        is |-> IF q.den # 0 THEN "finite" ELSE IF q.num = 0 THEN "NaN" ELSE "Infinity",
        num |-> q.num, den |-> q.den]

Thrown(name, message) ==
    [threw |-> TRUE, error |-> name, message |-> message, value |-> Null]

Returned(value) ==
    [threw |-> FALSE, error |-> "", message |-> <<>>, value |-> value]

\* executeFormula: Object.keys(inputs).filter((key) => !(key in formula.inputs))
extraInputs(formula, inputs) ==
    {key \in DOMAIN inputs : ~In(key, formula.inputs)}

\* executeFormula(formulaName, inputs)
executeFormula(formulaName, inputs) ==
    LET formula == getFormula(formulaName) IN
    IF formula = Null
    THEN Thrown("Error", <<"Formula", formulaName, "not found", "in library.">>)
    ELSE IF formula = Inherited
    THEN Thrown("TypeError", <<"Cannot convert undefined or null to object">>)
    ELSE
    LET defined == DOMAIN formula.inputs
        missingInputs == {n \in defined : formula.inputs[n].required /\ ~In(n, inputs)}
        given == {n \in defined : n \in DOMAIN inputs}
        invalidInputs == {n \in defined :
                            /\ In(n, inputs)
                            /\ n \notin DOMAIN inputs \/ ~isFiniteNumber(inputs[n])}
        validatedInputs == [n \in {m \in given : isFiniteNumber(inputs[m])} |-> inputs[n]]
    IN
    IF extraInputs(formula, inputs) # {}
    THEN Thrown("Error", <<"Invalid", "inputs provided", formulaName>>)
    ELSE IF missingInputs # {}
    THEN Thrown("Error", <<"Missing required", "inputs for formula", formulaName>>)
    ELSE IF invalidInputs # {}
    THEN Thrown("Error", <<"Invalid", "input types for formula", formulaName>>)
    ELSE IF DOMAIN validatedInputs # defined
    THEN Thrown("Error", <<"Formula execution failed:", "Undefined symbol">>)
    ELSE LET result == evaluate(formula, validatedInputs) IN
         IF result.is # "finite"
         THEN Thrown("Error", <<"Formula execution failed:", "Formula execution returned",
                                "invalid", "result">>)
         ELSE Returned([result |-> result, formula_used |-> formulaName,
                        inputs |-> validatedInputs])

RECURSIVE stringify(_, _, _)
\* JSON.stringify(inputs): the own properties in the order they were set
stringify(order, i, obj) ==
    IF i > Len(order) THEN <<>>
    ELSE (IF order[i] \in DOMAIN obj
          THEN <<order[i], ToString(obj[order[i]].n)>>
          ELSE <<>>) \o stringify(order, i + 1, obj)

\* /audit_math: the status code the catch block picks for a message
statusCode(errorMessage) ==
    IF \/ includes(errorMessage, <<"not found">>)
       \/ includes(errorMessage, <<"Missing required">>)
       \/ includes(errorMessage, <<"Invalid">>)
    THEN 400
    ELSE 500

\* app.post("/audit_math") past the gate and zValidator
audit_math(formula, inputs, privateKey, now) ==
    LET normalizedInputs == [key \in DOMAIN inputs |->
                                IF inputs[key].type = "number" THEN inputs[key]
                                ELSE Number(inputs[key])]
        calculationResult == executeFormula(formula, normalizedInputs)
    IN
    IF calculationResult.threw
    THEN Replied(statusCode(calculationResult.message), "Calculation Error",
                 calculationResult.message, Null)
    ELSE IF privateKey = <<>>
    THEN Replied(500, "Configuration Error",
                 <<"BASIS_PRIVATE_KEY not configured. Cannot create witness proof.">>, Null)
    ELSE LET v == calculationResult.value
             signed == sign("audit",
                            [a |-> <<v.formula_used>>,
                             b |-> stringify(FORMULA_LIBRARY[formula].order, 1, v.inputs),
                             c |-> <<ToString(v.result.num), "/", ToString(v.result.den)>>],
                            <<>>, privateKey, now)
         IN IF signed.threw
            THEN Replied(statusCode(signed.message), "Calculation Error", signed.message, Null)
            ELSE Replied(200, "", <<>>, signed.proof)

\* The formula names and the input names a caller may send.
FormulaNames ==
    {"roi", "present_value", "sharpe_ratio", "toString"}

InputNames ==
    {"initial_investment", "current_value", "future_value", "discount_rate", "periods",
     "toString"}

\* The values handed to executeFormula directly, and those a JSON body that
\* passed auditMathSchema can hold: numbers and numeric strings.
DirectValues ==
    {Num(0), Num(2), NaNValue, InfinityValue, Str(Num(2))}

BodyValues ==
    {Num(0), Num(2), Str(Num(2)), Str(InfinityValue)}

\* The input objects with at most MaxInputs own properties.
InputObjects(V) ==
    UNION {[S -> V] : S \in {T \in SUBSET InputNames : Cardinality(T) <= MaxInputs}}

CalcInit ==
    /\ env \in {[wallet |-> Recipient, kv |-> TRUE, privateKey |-> k] :
                  k \in {KeyGood, <<>>, Pfx0x \o <<"a", "b", "c">>}}
    /\ txid = "paid"
    /\ InitGate
    /\ vIn = Null
    /\ vOut = Null
    /\ vCalls = <<>>
    /\ runs = [x \in Runs |-> Null]
    /\ calc = Null

\* executeFormula is called on its own.
CallExecuteFormula ==
    /\ calc = Null
    /\ \E formula \in FormulaNames, inputs \in InputObjects(DirectValues) :
        /\ calc' = [via |-> "executeFormula", formula |-> formula, inputs |-> inputs,
                    out |-> executeFormula(formula, inputs), reply |-> Null]
        /\ UNCHANGED <<gateVars, handlerVars, vIn, vOut, vCalls, runs>>

\* A request to /audit_math that the gate and the schema let through.
AuditMath ==
    /\ calc = Null
    /\ \E formula \in FormulaNames, inputs \in InputObjects(BodyValues) :
        LET normalizedInputs == [key \in DOMAIN inputs |-> Number(inputs[key])] IN
        /\ calc' = [via |-> "audit_math", formula |-> formula, inputs |-> normalizedInputs,
                    out |-> executeFormula(formula, normalizedInputs),
                    reply |-> audit_math(formula, inputs, env.privateKey, ticks)]
        /\ UNCHANGED <<gateVars, handlerVars, vIn, vOut, vCalls, runs>>

CalcNext ==
    CallExecuteFormula \/ AuditMath

CalcSpec ==
    CalcInit /\ [][CalcNext]_vars

\* ------------------------------------------------ reading the state
\* The request has made the call or taken the step named e.
Has(r, e) ==
    \E i \in 1..Len(log[r]) : log[r][i] = e

\* How many of the request's calls are among those named in S.
Count(r, S) ==
    Cardinality({i \in 1..Len(log[r]) : log[r][i] \in S})

NextCalled(r) ==
    Has(r, "next")

\* ------------------------------------------------------------ claims

\* C1 (checked on requests that do not overlap, SeqSpec): a request that read
\* no record, wrote the lock, was verified as valid and wrote 'used' is
\* admitted (next() is called); a request that arrives while the 24 hours
\* after an admission of its identifier are running never reaches next() and,
\* when its store read returns, is answered 402 'Payment Reuse Detected'; no
\* identifier is admitted twice within those 24 hours.
C1_SequentialExactlyOnce ==
    /\ \A r \in Req :
         /\ ( /\ existingHash[r] = KV_NULL
              /\ Has(r, "put_pending")
              /\ verification[r].valid
              /\ Has(r, "put_used") )
            => (pc[r] = "admitted" /\ NextCalled(r) /\ resp[r] = NoResponse)
         /\ sawWindow[r]
            => /\ pc[r] = "done"
               /\ ~NextCalled(r)
               /\ log[r] \in {<<"get">>, <<"get!">>}
               /\ Has(r, "get") => resp[r] = PaymentReuse402
    /\ \A k \in Keys : admits[k] <= 1

C1_Witness ==
    \E r1, r2 \in Req :
        /\ r1 < r2
        /\ hdr[r1] = "paid" /\ hdr[r2] = "paid"
        /\ pc[r1] = "admitted"
        /\ sawWindow[r2]
        /\ resp[r2] = PaymentReuse402

\* C2: under every interleaving, no transaction identifier is admitted a
\* second time within the 24 hours that follow an admission, the time during
\* which its record is meant to be PENDING or USED.
C2_AtMostOneAdmission ==
    \A k \in Keys : admits[k] < 2

\* C3: a record that holds 'used' is changed by nothing but the passing of
\* time: no step of a request deletes it, overwrites it with 'pending' or
\* shortens its TTL.
C3_UsedIsStable ==
    [][\A k \in Keys :
          (kv[k].val = "used" /\ ticks' = ticks)
          => (kv'[k].val = "used" /\ kv'[k].ttl >= kv[k].ttl)]_vars

\* C4: a request whose kv.get found a record, pending or used, has ended with
\* 402 'Payment Reuse Detected' and has made no other store call, no verifier
\* call and no call of next().
C4_FoundRecordRejected ==
    \A r \in Req :
        existingHash[r] \in {"pending", "used"}
        => /\ pc[r] = "done"
           /\ resp[r] = PaymentReuse402
           /\ log[r] = <<"get">>
           /\ ctx[r] = Unset

C4_Witness ==
    \E r \in Req : existingHash[r] = "pending" /\ pc[r] = "done"

\* C5: a request whose Authorization header is missing or does not match
\* ^0x[0-9a-fA-F]{64}$ is answered 402 'Payment Required' and makes no store
\* call and no verifier call.
C5_MalformedNeverReachesStore ==
    \A r \in Req :
        (pc[r] # "idle" /\ ~HeaderIsTxHash(hdr[r]))
        => /\ resp[r].status = 402
           /\ resp[r].error = "Payment Required"
           /\ log[r] = <<>>

\* C6: when the verification was valid and the kv.put of 'used' threw, the
\* request has ended with 500 'Internal Server Error', next() was not called
\* and neither wallet_address nor tx_hash is set in the context.
C6_FailClosedAfterSuccess ==
    \A r \in Req :
        Has(r, "put_used!")
        => /\ verification[r].valid
           /\ pc[r] = "done"
           /\ resp[r] = RecordFailed500
           /\ ~NextCalled(r)
           /\ ctx[r] = Unset

C6_Witness ==
    \E r \in Req : Has(r, "put_used!") /\ pc[r] = "done" /\ kv[hdr[r]].val = "pending"

\* C7: a request whose verification was invalid makes one delete and no more,
\* ends with 402 'Payment Verification Failed' carrying the verifier's reason
\* whether the delete returned or threw, and never reaches next(); a delete
\* that throws changes no record, so that the lock of a request that is alone
\* is still the PENDING record it wrote, with its TTL running.
C7_VerificationFailureRelease ==
    /\ [](\A r \in Req :
            (Has(r, "verify") /\ ~verification[r].valid)
            => /\ pc[r] \in {"release", "done", "crashed"}
               /\ ~NextCalled(r)
               /\ ctx[r] = Unset
               /\ pc[r] = "release" => Count(r, {"delete", "delete!"}) = 0
               /\ pc[r] = "done"
                  => /\ Count(r, {"delete", "delete!"}) = 1
                     /\ resp[r].status = 402
                     /\ resp[r].error = "Payment Verification Failed"
                     /\ resp[r].message = verification[r].error
                     /\ verification[r].error # <<>>)
    /\ [][\A r \in Req :
            log'[r] = Append(log[r], "delete!")
            => /\ kv' = kv
               /\ (ticks = 0 /\ \A q \in Req \ {r} : pc[q] = "idle")
                  => kv'[hdr[r]] = [val |-> "pending", ttl |-> PENDING_TTL]]_vars

C7_Witness ==
    \E r \in Req :
        /\ Has(r, "delete!")
        /\ pc[r] = "done"
        /\ resp[r].error = "Payment Verification Failed"
        /\ kv[hdr[r]].val = "pending"

\* C8: a request whose kv.get or whose kv.put of 'pending' threw has ended
\* with 500 and has called neither the verifier nor next().
C8_StoreFailureRejects ==
    \A r \in Req :
        (Has(r, "get!") \/ Has(r, "put_pending!"))
        => /\ pc[r] = "done"
           /\ resp[r].status = 500
           /\ resp[r] = LockFailed500
           /\ ~Has(r, "verify")
           /\ ~NextCalled(r)
           /\ ctx[r] = Unset

C8_Witness ==
    \E r \in Req : Has(r, "put_pending!") /\ pc[r] = "done"

\* C9 (checked on requests that do not overlap, SeqSpec): a pending record
\* always has between 1 and 300 seconds left, every passing of time shortens
\* what is left or removes the record, and a request whose kv.get returns
\* absent goes on to write the lock.
C9_PendingExpires ==
    /\ [](\A k \in Keys : kv[k].val = "pending" => kv[k].ttl \in 1..PENDING_TTL)
    /\ [][\A k \in Keys :
            (kv[k].val = "pending" /\ ticks' # ticks)
            => \/ kv'[k] = Absent
               \/ (kv'[k].val = "pending" /\ kv'[k].ttl < kv[k].ttl)]_vars
    /\ [][\A r \in Req :
            (pc[r] = "idle" /\ existingHash'[r] = KV_NULL)
            => pc'[r] = "put_pending"]_vars

\* A request stopped while it held the lock, or whose delete failed, and a
\* later request with the same identifier that read absent and wrote the lock.
C9_Witness ==
    \E q, r \in Req :
        /\ q < r
        /\ hdr[q] = hdr[r]
        /\ Has(q, "put_pending")
        /\ pc[q] = "crashed" \/ Has(q, "delete!")
        /\ existingHash[r] = KV_NULL
        /\ Has(r, "put_pending")

\* C10: for a receipt that reports success, verifyPayment returns valid
\* exactly when some log comes from the USDC contract, decodes as a Transfer,
\* goes to the recipient (letter case ignored) and carries at least 1000
\* units; a single such transfer of 999 units is invalid and of 1000 valid.
\* (A placeholder hash is refused before any receipt is fetched.)
C10_MinimumAmount ==
    (vOut # Null /\ vIn.rpc.kind = "receipt" /\ vIn.rpc.status = "success"
       /\ ~isTestHash(vIn.txHash))
    => LET logs == vIn.rpc.logs
           paysEnough(l) ==
               /\ toLowerCase(l.address) = toLowerCase(USDC_BASE_ADDRESS)
               /\ l.event = "Transfer"
               /\ toLowerCase(l.to) = toLowerCase(vIn.expectedRecipient)
               /\ l.value >= 1000
       IN /\ vOut.valid <=> \E i \in 1..Len(logs) : paysEnough(logs[i])
          /\ (Len(logs) = 1 /\ paysEnough([logs[1] EXCEPT !.value = 1000]))
             => /\ logs[1].value = 999 => ~vOut.valid
                /\ logs[1].value = 1000 => vOut.valid

C10_Witness ==
    /\ vOut # Null
    /\ vIn.rpc.kind = "receipt"
    /\ vIn.rpc.status = "success"
    /\ Len(vIn.rpc.logs) = 1
    /\ vIn.rpc.logs[1].value = 999
    /\ toLowerCase(vIn.rpc.logs[1].to) = toLowerCase(vIn.expectedRecipient)
    /\ vIn.rpc.logs[1].address = USDC_BASE_ADDRESS
    /\ vIn.rpc.logs[1].event = "Transfer"
    /\ ~vOut.valid

\* C11: for the literal test identifier 0x1234567890abcdef (four times over)
\* and for the all-zero and the all-f identifiers, verifyPayment returns
\* invalid and has created no ledger client and sent no ledger query,
\* whatever the ledger would have answered.
C11_PlaceholderNeverQueried ==
    (vOut # Null /\ vIn.txHash \in {HeaderText("test"), Pfx0x \o Rep(<<"0">>, 64),
                                     Pfx0x \o Rep(<<"f">>, 64)})
    => /\ ~vOut.valid
       /\ vCalls = <<>>
    /\ runs = [x \in Runs |-> Null]

C11_Witness ==
    /\ vOut # Null
    /\ vIn.txHash = Pfx0x \o Rep(<<"0">>, 64)
    /\ vIn.rpc.kind = "receipt"
    /\ vIn.rpc.status = "success"
    /\ FirstTransfer(vIn.rpc.logs, 1, vIn.expectedRecipient) # Null
    /\ ~vOut.valid
    /\ vCalls = <<>>
    /\ runs = [x \in Runs |-> Null]

Stamp(e) ==
    CASE e.kind \in {"timeline", "risk"} -> e.timestamp
      [] e.kind \in {"content", "custody", "integrity"} -> toISOString(e.at)
      [] OTHER -> <<>>

\* C16: two executions of the same logical action with the same field values
\* and the same timestamp build the same canonical payload and the same hash,
\* whenever they run; only a different timestamp makes their payloads differ.
C16_PayloadDeterminism ==
    \A x, y \in Runs :
        (/\ runs[x] # Null /\ runs[y] # Null
         /\ ~runs[x].out.threw /\ ~runs[y].out.threw
         /\ runs[x].kind = runs[y].kind
         /\ runs[x].fields = runs[y].fields)
        => /\ Stamp(runs[x]) = Stamp(runs[y])
              => /\ runs[x].out.payload = runs[y].out.payload
                 /\ runs[x].out.proof.hash = runs[y].out.proof.hash
           /\ runs[x].out.payload # runs[y].out.payload
              => Stamp(runs[x]) # Stamp(runs[y])

C16_Witness ==
    /\ runs["first"] # Null /\ runs["second"] # Null
    /\ ~runs["first"].out.threw /\ ~runs["second"].out.threw
    /\ runs["first"].kind = "timeline" /\ runs["second"].kind = "timeline"
    /\ runs["first"].fields = runs["second"].fields
    /\ runs["first"].timestamp = runs["second"].timestamp
    /\ runs["first"].at # runs["second"].at
    /\ runs["first"].out.proof.hash = runs["second"].out.proof.hash

\* The request was let through by the gate and failed over the signing key:
\* the key is missing (500 Configuration Error) or signContent threw over it.
KeyFailure(r) ==
    /\ pc[r] \in {"returned", "sent"}
    /\ reply[r].error = "Configuration Error" \/ Has(r, "sign!")

\* C12: a missing or malformed signing key makes the request fail before any
\* state is changed by it: the request has written nothing to the Replay
\* Store and the record of its identifier is as it was before the request,
\* neither PENDING nor USED.
C12_KeyFailureBeforeMutation ==
    \A r \in Req :
        KeyFailure(r)
        => /\ Count(r, {"put_pending", "put_used", "delete"}) = 0
           /\ kv[hdr[r]] = Absent

\* The steps zValidator and the handler take.
HandlerEvents ==
    {"validate", "validate!", "action", "action!", "sign", "sign!", "log", "return"}

\* Some call named in S comes before the i-th call of the request.
Before(r, i, S) ==
    \E j \in 1..(i - 1) : log[r][j] \in S

C17_NoExceptionTextEchoed ==
    \A r \in Req : \A e \in RpcErrors :
        e.message # <<>>
        => /\ ~includes(resp[r].message, e.message)
           /\ ~includes(reply[r].message, e.message)

\* The status the handler answers with, from what it met, the log left aside.
ExpectedStatus(r) ==
    LET w == work[r] IN
    IF w.body = "invalid" THEN 400
    ELSE IF w.fetchResult.status # 200 THEN w.fetchResult.status
    ELSE IF w.fetchResult.content = <<>> THEN 200
    ELSE IF IsTxHashShape(normalizedKey("content", env.privateKey)) THEN 200
    ELSE 500

\* C18: logging is fire-and-forget.  The handler returns with the log write
\* at most scheduled, never run; status and body of the response are those
\* the body, the fetch and the key determine, whether the write is skipped,
\* is still to run, is stored, fails or throws; the write, when it runs,
\* changes neither the response nor the progress of the request.
C18_LoggingFireAndForget ==
    /\ [](\A r \in Req :
            work[r] # Null
            => /\ pc[r] \in {"returned", "sent"}
               /\ reply[r].status = ExpectedStatus(r)
               /\ reply[r].proof # Null
                  <=> (reply[r].status = 200 /\ work[r].fetchResult.content # <<>>
                       /\ work[r].body = "valid"))
    /\ [][\A r \in Req :
            /\ (work[r] = Null /\ work'[r] # Null)
               => logWrite'[r] \in {"none", "skipped", "scheduled"}
            /\ logWrite'[r] \in LogOutcomes /\ logWrite[r] \notin LogOutcomes
               => /\ logWrite[r] = "scheduled"
                  /\ reply' = reply /\ pc' = pc /\ resp' = resp /\ kv' = kv]_vars

C18_Witness ==
    \E r \in Req :
        /\ pc[r] = "returned"
        /\ logWrite[r] = "threw"
        /\ reply[r].status = 200
        /\ reply[r].proof # Null

\* C14: on every paid endpoint the gate prevents replay: an identifier that
\* was admitted once to an endpoint is rejected on every later request to
\* that endpoint within the lock window (here the clock stands still), and
\* an admitted identifier has been verified on the ledger.
C14_ReplayRejectedOnEveryEndpoint ==
    /\ \A r, q \in Req :
          (r # q /\ NextCalled(r) /\ NextCalled(q) /\ route[r] = route[q])
          => hdr[r] # hdr[q]
    /\ \A r \in Req : NextCalled(r) => Has(r, "verify") /\ verification[r].valid

\* The step adds the call named e to the calls of the request.
Wrote(r, e) ==
    /\ Len(log'[r]) > Len(log[r])
    /\ log'[r][Len(log[r]) + 1] = e

\* C19: the gate has no atomic test-and-set.  A request is let through on
\* what its own kv.get returned and its own verification found, and its
\* kv.put of the lock writes a fresh PENDING record over whatever another
\* request has written since; so two requests that both read ABSENT before
\* either wrote both write PENDING, both verify, both write USED and both
\* call next() (the witness is that state).
C19_CheckThenAcquireRace ==
    /\ [](\A r \in Req :
            pc[r] = "admitted"
            => /\ existingHash[r] = KV_NULL
               /\ verification[r].valid
               /\ Count(r, {"put_pending"}) = 1 /\ Count(r, {"put_used"}) = 1)
    /\ [][\A r \in Req :
            Wrote(r, "put_pending")
            => kv'[hdr[r]] = [val |-> "pending", ttl |-> PENDING_TTL]]_vars

C19_Witness ==
    \E r, q \in Req :
        /\ r # q /\ hdr[r] = hdr[q]
        /\ ticks = 0
        /\ \A o \in Req \ {r, q} : pc[o] = "idle"
        /\ existingHash[r] = KV_NULL /\ existingHash[q] = KV_NULL
        /\ log[r] = <<"get", "put_pending", "verify", "put_used", "next">>
        /\ log[q] = <<"get", "put_pending", "verify", "put_used", "next">>
        /\ verification[r].valid /\ verification[q].valid
        /\ pc[r] = "admitted" /\ pc[q] = "admitted"
        /\ admits[hdr[r]] = 2

\* C20: under every interleaving a replay record changes state only by
\* ABSENT -> PENDING, PENDING -> USED, PENDING -> ABSENT or USED -> ABSENT; no
\* step writes PENDING over a PENDING or USED record and none writes USED
\* over an absent one.
C20_FourTransitions ==
    [][\A k \in Keys :
         /\ kv'[k].val # kv[k].val
            => <<kv[k].val, kv'[k].val>> \in
                  { <<KV_NULL, "pending">>, <<"pending", "used">>,
                    <<"pending", KV_NULL>>, <<"used", KV_NULL>> }
         /\ \A r \in Req :
               /\ (hdr[r] = k /\ Wrote(r, "put_pending")) => kv[k].val = KV_NULL
               /\ (hdr[r] = k /\ Wrote(r, "put_used")) => kv[k].val = "pending"]_vars

\* The log is a USDC Transfer of at least the minimum to the recipient.
PaysEnough(l, recipient) ==
    /\ toLowerCase(l.address) = toLowerCase(USDC_BASE_ADDRESS)
    /\ l.event = "Transfer"
    /\ toLowerCase(l.to) = toLowerCase(recipient)
    /\ l.value >= 1000

\* verifyPayment was called for a hash that is no placeholder and the ledger
\* returned a receipt.
GotReceipt ==
    vOut # Null /\ vIn.rpc.kind = "receipt" /\ ~isTestHash(vIn.txHash)

\* C21: verifyPayment examines the logs of the receipt in order, skips the
\* logs that are not from the USDC contract, do not decode as Transfer, go
\* elsewhere or carry too little, and returns as payer the sender of the
\* first log that satisfies all conditions, also when a later log satisfies
\* them with another sender.
C21_FirstMatchScan ==
    (GotReceipt /\ vIn.rpc.status = "success" /\ vOut.valid)
    => \E i \in 1..Len(vIn.rpc.logs) :
          /\ PaysEnough(vIn.rpc.logs[i], vIn.expectedRecipient)
          /\ \A j \in 1..(i - 1) : ~PaysEnough(vIn.rpc.logs[j], vIn.expectedRecipient)
          /\ vOut.walletAddress = vIn.rpc.logs[i].from

C21_Witness ==
    /\ GotReceipt /\ vOut.valid
    /\ Len(vIn.rpc.logs) = 2
    /\ PaysEnough(vIn.rpc.logs[1], vIn.expectedRecipient)
    /\ PaysEnough(vIn.rpc.logs[2], vIn.expectedRecipient)
    /\ vIn.rpc.logs[1].from # vIn.rpc.logs[2].from
    /\ vOut.walletAddress = vIn.rpc.logs[1].from

\* The four results verifyPayment has for a receipt.
FailedOrPending == vOut = Invalid(<<"Transaction failed or is pending">>)
NoLogs == vOut = Invalid(<<"Transaction contains no logs">>)
NoQualifyingTransfer ==
    vOut = Invalid(<<"No valid USDC transfer found to recipient address with sufficient amount">>)
Valid == vOut.valid /\ vOut.error = <<>>

\* C22: a receipt whose status is not success yields "transaction failed or
\* pending" whatever its logs are; a successful receipt without logs yields
\* "no logs"; only a successful receipt with at least one log yields "no
\* qualifying transfer" or valid; every receipt yields exactly one of the
\* four.
C22_ValidationOrder ==
    GotReceipt =>
        /\ vIn.rpc.status # "success" => FailedOrPending
        /\ (vIn.rpc.status = "success" /\ vIn.rpc.logs = <<>>) => NoLogs
        /\ (NoQualifyingTransfer \/ Valid)
               => (vIn.rpc.status = "success" /\ vIn.rpc.logs # <<>>)
        /\ Cardinality({o \in {"failed", "nologs", "none", "valid"} :
               \/ o = "failed" /\ FailedOrPending
               \/ o = "nologs" /\ NoLogs
               \/ o = "none" /\ NoQualifyingTransfer
               \/ o = "valid" /\ Valid}) = 1

C22_Witness ==
    /\ GotReceipt /\ FailedOrPending
    /\ vIn.rpc.status = "reverted"
    /\ vIn.rpc.logs # <<>>
    /\ PaysEnough(vIn.rpc.logs[1], vIn.expectedRecipient)

\* The ledger client threw while verifyPayment was at work.
ClientThrew ==
    vOut # Null /\ vIn.rpc.kind = "throw" /\ ~isTestHash(vIn.txHash)

\* The error says that the receipt was not found.
SaysNotFound(err) ==
    \/ err.name = "TransactionReceiptNotFoundError"
    \/ \E i \in 1..Len(err.message) :
          \/ err.message[i] = "Transaction" /\ i < Len(err.message)
                /\ err.message[i + 1] = "receipt"
          \/ err.message[i] = "not" /\ i < Len(err.message)
                /\ err.message[i + 1] \in {"found", "be"}

\* The error says that the ledger could not be reached.
SaysNetwork(err) ==
    \E i \in 1..Len(err.message) :
        err.message[i] \in {"fetch", "network", "timeout", "ECONNREFUSED"}

ReasonNotFound == includes(vOut.error, <<"\" could not be found. The transaction may not be processed on a block yet, or the hash may be invalid. Please ensure the transaction has been confirmed on Base Mainnet.">>)
ReasonNetwork == vOut.error = <<"Failed to connect to Base Mainnet RPC. Please try again later.">>

\* C23: verifyPayment always returns a result: whatever the ledger client
\* throws becomes an invalid result; an error that says not-found gives the
\* not-found reason, also when it says network as well; an error that only
\* says network gives the network reason; the two reasons differ and no
\* thrown error gives a valid result.
C23_NeverThrows ==
    /\ vOut # Null => DOMAIN vOut = {"valid", "walletAddress", "error"}
    /\ ClientThrew =>
        /\ ~vOut.valid /\ vOut.error # <<>>
        /\ SaysNotFound(vIn.rpc) => ReasonNotFound
        /\ (SaysNetwork(vIn.rpc) /\ ~SaysNotFound(vIn.rpc)) => ReasonNetwork
        /\ ~(ReasonNotFound /\ ReasonNetwork)

C23_Witness ==
    /\ ClientThrew
    /\ SaysNotFound(vIn.rpc) /\ SaysNetwork(vIn.rpc)
    /\ ReasonNotFound /\ ~vOut.valid

\* BASIS_WALLET_ADDRESS or the BASIS_KV binding is not configured.
NotConfigured ==
    env.wallet = <<>> \/ ~env.kv

\* C24: when the recipient address or the store binding is not configured, a
\* request whose Authorization header matches ^0x[0-9a-fA-F]{64}$ is answered
\* 500 'Configuration Error' without any store call and without a verifier
\* call, and a request whose header is missing or does not match is answered
\* 402 'Payment Required'.
C24_ConfigurationCheckedAfterFormat ==
    \A r \in Req :
        (NotConfigured /\ pc[r] # "idle")
        => /\ pc[r] = "done"
           /\ log[r] = <<>>
           /\ verification[r] = NoVerification
           /\ HeaderIsTxHash(hdr[r])
              => (resp[r].status = 500 /\ resp[r].error = "Configuration Error")
           /\ ~HeaderIsTxHash(hdr[r])
              => (resp[r].status = 402 /\ resp[r].error = "Payment Required")

LastCall(r) ==
    IF log[r] = <<>> THEN "" ELSE log[r][Len(log[r])]

\* C26: one request makes at most one kv.get, at most one kv.put of 'pending'
\* and one of 'used', at most one kv.delete and at most one verifier call; a
\* get or a put that throws is the last call of the request, which ends with
\* status 500 without next(); a delete that throws is also the last call and
\* the request ends with the 402 of the failed verification.
C26_NoRetries ==
    \A r \in Req :
        /\ Count(r, {"get", "get!"}) <= 1
        /\ Count(r, {"put_pending", "put_pending!"}) <= 1
        /\ Count(r, {"put_used", "put_used!"}) <= 1
        /\ Count(r, {"delete", "delete!"}) <= 1
        /\ Count(r, {"verify"}) <= 1
        /\ \A e \in {"get!", "put_pending!", "put_used!"} :
              Has(r, e) => /\ LastCall(r) = e
                           /\ pc[r] = "done"
                           /\ resp[r].status = 500
        /\ Has(r, "delete!")
           => /\ LastCall(r) = "delete!"
              /\ pc[r] = "done"
              /\ resp[r] = VerificationFailed402(verification[r], env.wallet)

C26_Witness ==
    \E r, q \in Req :
        /\ log[r] = <<"get", "put_pending!">> /\ pc[r] = "done"
        /\ log[q] = <<"get", "put_pending", "verify", "delete!">> /\ pc[q] = "done"

\* The request read a record and was answered.
FoundRecord(r) ==
    pc[r] = "done" /\ existingHash[r] \in {"pending", "used"}

\* C27: two requests with the same credential that found a record, the one
\* 'pending' and the other 'used', are answered with the same status code,
\* error and message: the response to a replay does not depend on the value
\* stored.
C27_ReplayResponseIndependent ==
    \A r, q \in Req :
        (FoundRecord(r) /\ FoundRecord(q) /\ hdr[r] = hdr[q])
        => /\ resp[r].status = resp[q].status
           /\ resp[r].error = resp[q].error
           /\ resp[r].message = resp[q].message

C27_Witness ==
    \E r, q \in Req :
        /\ FoundRecord(r) /\ FoundRecord(q) /\ hdr[r] = hdr[q]
        /\ existingHash[r] = "pending" /\ existingHash[q] = "used"
        /\ resp[r].status = 402 /\ resp[q].status = 402

\* The outcomes a request through the gate has.
Outcomes(r) ==
    {o \in {"PaymentRequired", "ConfigurationError", "ReplayDetected", "StoreFailure",
            "VerificationFailed", "InternalError", "next"} :
        \/ o = "PaymentRequired" /\ resp[r].status = 402 /\ resp[r].error = "Payment Required"
        \/ o = "ConfigurationError" /\ resp[r].status = 500
              /\ resp[r].error = "Configuration Error"
        \/ o = "ReplayDetected" /\ resp[r].status = 402
              /\ resp[r].error = "Payment Reuse Detected"
        \/ o = "StoreFailure" /\ resp[r].status = 500
              /\ resp[r].error = "Internal Server Error" /\ ~Has(r, "verify")
        \/ o = "VerificationFailed" /\ resp[r].status = 402
              /\ resp[r].error = "Payment Verification Failed"
        \/ o = "InternalError" /\ resp[r].status = 500
              /\ resp[r].error = "Internal Server Error" /\ Has(r, "verify")
        \/ o = "next" /\ NextCalled(r)}

Terminated(r) ==
    pc[r] \in {"done", "admitted"}

\* C28: when every store call and the ledger query returns or throws, every
\* request that has entered the gate terminates, and a terminated request
\* has exactly one outcome among 402 PaymentRequired, 500 ConfigurationError,
\* 402 ReplayDetected, 500 store failure, 402 VerificationFailed, 500
\* InternalError after verification and next() called; a request that has not
\* terminated has none, and no request is left with an escaped exception.
C28_Terminates ==
    /\ [](\A r \in Req :
            /\ pc[r] \in {"idle", "put_pending", "verify", "release", "put_used",
                          "done", "admitted"}
            /\ Terminated(r) => Cardinality(Outcomes(r)) = 1
            /\ ~Terminated(r) => Outcomes(r) = {})
    /\ \A r \in Req : [](pc[r] # "idle" => <>Terminated(r))

C28_Witness ==
    \E r, q \in Req :
        /\ Terminated(r) /\ Outcomes(r) = {"InternalError"}
        /\ Terminated(q) /\ Outcomes(q) = {"next"}

\* The values and TTLs of the records: 'pending' lives at most 300 seconds
\* and 'used' at most 86400, and a put writes exactly these TTLs.
ValuesAndTtls ==
    /\ [](\A k \in Keys :
            /\ kv[k].val \in {KV_NULL, "pending", "used"}
            /\ kv[k].val = KV_NULL => kv[k].ttl = 0
            /\ kv[k].val = "pending" => kv[k].ttl \in 1..300
            /\ kv[k].val = "used" => kv[k].ttl \in 1..86400)
    /\ [][\A r \in Req :
            /\ Wrote(r, "put_pending") => kv'[hdr[r]] = [val |-> "pending", ttl |-> 300]
            /\ Wrote(r, "put_used") => kv'[hdr[r]] = [val |-> "used", ttl |-> 86400]]_vars

\* C29: in every reachable state each record of the Replay Store is keyed by
\* a transaction identifier (0x and 64 hexadecimal digits) and holds exactly
\* 'pending' or 'used'; 'pending' is only written with a TTL of 300 seconds
\* and 'used' only with a TTL of 86400 seconds.
C29_StoreEntries ==
    /\ [](\A k \in Keys : kv[k] # Absent => IsTxHashShape(HeaderText(k)))
    /\ ValuesAndTtls

\* The step is one of the handler (with its signing call), of the response
\* or of the logger.
HandlerStep(r) ==
    \/ \E e \in HandlerEvents : Wrote(r, e)
    \/ pc[r] = "returned" /\ pc'[r] = "sent"
    \/ logWrite'[r] # logWrite[r]

\* The step is a store call of the gate that returned.
GateWrite(r) ==
    Wrote(r, "put_pending") \/ Wrote(r, "put_used") \/ Wrote(r, "delete")

\* The text signContent signs over and the key it signs with.
SignedText(r) ==
    <<"https://a.example">> \o <<":">> \o toISOString(ticks) \o <<":">>
        \o work[r].fetchResult.content
SigningKey ==
    IF SubSeq(env.privateKey, 1, 2) = <<"0", "x">> THEN env.privateKey
    ELSE <<"0", "x">> \o env.privateKey

\* C30: the handler with its signing call, the sending of the response and
\* the logger leave every record of the Replay Store as it is; a record
\* changes only in a step where the gate's own put or delete returns; and the
\* certificate a request is answered with is the one its arguments, the key
\* and the clock determine, whatever happened before the call.
C30_SignerStatelessGateOnlyWriter ==
    /\ [][\A r \in Req : HandlerStep(r) => kv' = kv]_vars
    /\ [][kv' # kv => \E r \in Req : GateWrite(r)]_vars
    /\ [](\A r \in Req :
            reply[r].proof # Null
            => /\ reply[r].proof.timestamp = toISOString(ticks)
               /\ reply[r].proof.hash = <<"keccak256">> \o SignedText(r)
               /\ reply[r].proof.signer = <<"address of">> \o SigningKey
               /\ reply[r].proof.signature
                     = <<"signed by">> \o SigningKey \o reply[r].proof.hash)

C30_Witness ==
    \E r, q \in Req :
        /\ pc[r] = "sent" /\ reply[r].proof # Null /\ logWrite[r] = "stored"
        /\ kv[hdr[r]].val = "used"
        /\ env.privateKey = KeyBare
        /\ pc[q] = "done" /\ Has(q, "delete")

\* The record r's delete is about to remove is the lock r itself wrote.
OwnLock(r) ==
    /\ kv[hdr[r]].val = "pending"
    /\ writer[hdr[r]] = r

\* C31: the delete a request performs after a failed verification removes
\* only the PENDING record this same request wrote (or finds nothing left to
\* remove): never a PENDING record written by another request, never a USED
\* record.
C31_StaleRelease ==
    [][\A r \in Req : Wrote(r, "delete") => (kv[hdr[r]] = Absent \/ OwnLock(r))]_vars

\* The narrower statement: the delete never removes a USED record.
C31_NeverRemovesUsed ==
    [][\A r \in Req : Wrote(r, "delete") => kv[hdr[r]].val # "used"]_vars

\* The request has written its lock and has not yet resolved it.
HoldsLock(r) ==
    /\ Has(r, "put_pending")
    /\ pc[r] \in {"verify", "release", "put_used"}

\* C32: from the moment a request has written PENDING until it writes USED
\* or deletes, the record of its identifier is never ABSENT, however long the
\* ledger query takes.
C32_LockHeldDuringVerification ==
    \A r \in Req : HoldsLock(r) => kv[hdr[r]] # Absent

\* The handler of r has run and ended with an error and no certificate.
EndedWithError(r) ==
    /\ pc[r] \in {"returned", "sent"}
    /\ reply[r].status # 200
    /\ reply[r].proof = Null

\* C33: once the gate has written USED and called next(), the record of the
\* identifier stays USED with its 24-hour TTL through every outcome of the
\* handler: a rejected body, a failed action, a missing key, a signing
\* exception.  (The clock of the store stands still in FetchSpec.)
C33_StaysConsumed ==
    \A r \in Req :
        NextCalled(r) /\ Has(r, "put_used")
        => kv[hdr[r]] = [val |-> "used", ttl |-> REPLAY_TTL]

C33_Witness ==
    \E r \in Req :
        /\ NextCalled(r) /\ Has(r, "put_used")
        /\ EndedWithError(r)
        /\ pc[r] = "sent"
        /\ kv[hdr[r]] = [val |-> "used", ttl |-> REPLAY_TTL]

\* C34: the production gate calls next() for a request only after, within
\* that same request and in this order, kv.get returned no record, the put of
\* 'pending' returned, verifyPayment returned valid with a payer address, and
\* the put of 'used' returned.
C34_AdmissionImpliesVerification ==
    \A r \in Req :
        NextCalled(r)
        => /\ Len(log[r]) >= 5
           /\ SubSeq(log[r], 1, 5) = <<"get", "put_pending", "verify", "put_used", "next">>
           /\ existingHash[r] = KV_NULL
           /\ verification[r].valid
           /\ verification[r].walletAddress # <<>>

C34_Witness ==
    \E r, q \in Req :
        /\ NextCalled(r) /\ pc[r] = "admitted"
        /\ hdr[q] = hdr[r] /\ Has(q, "verify") /\ ~verification[q].valid /\ ~NextCalled(q)

\* C35: when the put of 'used' throws after a valid verification the gate
\* answers 500 without next() and without a delete, and the store is left as
\* it was: the record is the PENDING entry the request wrote, unless its TTL
\* ran out while the ledger was queried.  A lock never lives longer than
\* PENDING_TTL, a request that reads a record is answered as reuse, and only
\* an admission leaves a USED record: by the passing of 5 minutes the
\* identifier is free again.  (Checked on requests that do not overlap.)
C35_RecoverableAfterFailClosed ==
    /\ [][\A r \in Req :
            Wrote(r, "put_used!")
            => /\ kv' = kv
               /\ verification[r].valid
               /\ kv[hdr[r]] = Absent \/ OwnLock(r)
               /\ pc'[r] = "done" /\ resp'[r] = RecordFailed500]_vars
    /\ [](\A r \in Req :
            Has(r, "put_used!")
            => ~NextCalled(r) /\ ~Has(r, "delete") /\ ~Has(r, "delete!"))
    /\ [](\A k \in Keys :
            /\ kv[k].val = "pending" => kv[k].ttl <= PENDING_TTL
            /\ kv[k].val = "used" => admits[k] >= 1)
    /\ [][\A q \in Req :
            Wrote(q, "get") /\ kv[hdr'[q]] # Absent
            => pc'[q] = "done" /\ resp'[q] = PaymentReuse402]_vars

\* The retry of a payment whose 'used' put had failed is admitted once the
\* lock has expired.
C35_Witness ==
    \E r, q \in Req :
        /\ r < q /\ hdr[r] = "paid" /\ hdr[q] = "paid"
        /\ Has(r, "put_used!") /\ pc[r] = "done" /\ resp[r] = RecordFailed500
        /\ NextCalled(q) /\ pc[q] = "admitted"
        /\ kv["paid"].val = "used"

\* Identifiers that begin with a placeholder prefix, in lower and in upper
\* case, followed by 48 digits of several kinds.
PlaceholderSamples ==
    {Pfx0x \o p \o tail :
        p \in PlaceholderPrefixes
              \cup {<<"1", "2", "3", "4", "5", "6", "7", "8", "9", "0",
                      "A", "B", "C", "D", "E", "F">>,
                    Rep(<<"F">>, 16), Rep(<<"f", "F">>, 8)},
        tail \in {Rep(<<"a">>, 48), Rep(<<"9", "c", "E">>, 16), Rep(<<"0">>, 48),
                  Rep(<<"a", "B", "1", "2">>, 12)}}

\* The request carries an identifier with a placeholder prefix.
Placeholder(r) ==
    isTestHash(HeaderText(hdr[r]))

\* C36: verifyPayment rejects every identifier whose first 16 digits are a
\* placeholder prefix, whatever the case and whatever the 48 digits that
\* follow and whatever the ledger holds; in the gate the test comes after the
\* lock: such a request that found no record writes PENDING over ABSENT, is
\* verified as invalid, and its delete, when it returns, leaves ABSENT (the
\* lock it removes is its own, if the TTL has not removed it before); it is
\* answered 402 Payment Verification Failed and never let through.
C36_PlaceholderAfterLock ==
    /\ \A t \in PlaceholderSamples :
            /\ Len(t) = HEADER_LENGTH
            /\ ~verifyPayment(t, Recipient, PaidReceipt).valid
            /\ verifyPayment(t, Recipient, PaidReceipt)
                  = verifyPayment(HeaderText("test"), Recipient, NotFoundError)
    /\ [](\A r \in Req :
            Placeholder(r)
            => /\ ~NextCalled(r)
               /\ Has(r, "verify")
                  => /\ SubSeq(log[r], 1, 3) = <<"get", "put_pending", "verify">>
                     /\ existingHash[r] = KV_NULL
                     /\ ~verification[r].valid
               /\ pc[r] = "done" /\ Has(r, "verify")
                  => /\ log[r] \in {<<"get", "put_pending", "verify", "delete">>,
                                    <<"get", "put_pending", "verify", "delete!">>}
                     /\ resp[r] = VerificationFailed402(verification[r], env.wallet)
                     /\ resp[r].error = "Payment Verification Failed"
                     /\ resp[r] # PaymentRequired402(env.wallet))
    /\ [][\A r \in Req :
            Placeholder(r)'
            => /\ Wrote(r, "put_pending")
                  => kv[hdr[r]] = Absent /\ kv'[hdr[r]].val = "pending"
               /\ Wrote(r, "delete")
                  => (kv[hdr[r]] = Absent \/ OwnLock(r)) /\ kv'[hdr[r]] = Absent]_vars

C36_Witness ==
    \E r \in Req :
        /\ Placeholder(r)
        /\ log[r] = <<"get", "put_pending", "verify", "delete">>
        /\ pc[r] = "done"
        /\ resp[r].status = 402 /\ resp[r].error = "Payment Verification Failed"
        /\ kv[hdr[r]] = Absent

\* The signing functions whose canonical template contains a timestamp.
Timestamped ==
    {"content", "custody", "integrity", "risk", "timeline"}

\* The canonical text a verifier rebuilds from the result fields and a
\* timestamp ts.
Canonical(kind, f, ts) ==
    CASE kind = "content" -> f.a \o <<":">> \o ts \o <<":">> \o f.b
      [] kind = "custody" ->
            <<"I hold this data as of ">> \o ts \o <<". Key: ">> \o f.a \o <<", Value: ">> \o f.b
      [] kind = "integrity" -> f.a \o <<":">> \o f.b \o <<":">> \o ts
      [] kind = "risk" -> <<"TARGET:">> \o f.a \o <<":SCORE:">> \o f.b \o <<":TIME:">> \o ts
      [] kind = "timeline" -> <<"EVENT:">> \o f.a \o <<":TIME:">> \o ts \o <<":NONCE:">> \o f.c

\* The execution emitted a certificate.
Emitted(x) ==
    runs[x] # Null /\ ~runs[x].out.threw

\* The hash of the certificate is the hash of the canonical text rebuilt with
\* the timestamp ts.
RecomputesFrom(x, ts) ==
    runs[x].out.proof.hash
        = <<"keccak256">> \o Canonical(runs[x].kind, runs[x].fields, ts)

\* C37 as stated: for every signing function whose template contains a
\* timestamp (content, cache write, cache read, risk assessment,
\* timestamping) the signed hash is recomputed from the certificate's own
\* timestamp field and the result fields.
C37_CertificateTimestampSigned ==
    \A x \in Runs :
        Emitted(x) /\ runs[x].kind \in Timestamped
        => RecomputesFrom(x, runs[x].out.proof.timestamp)

\* C37 amended: this holds for content witnessing, cache write, cache read
\* and risk assessment.  signTimeline substitutes the registration time it is
\* handed, and its certificate carries the instant of signing: its hash is
\* recomputed from the registration time.
C37_CertificateTimestampSignedExceptTimeline ==
    \A x \in Runs :
        Emitted(x) /\ runs[x].kind \in Timestamped
        => IF runs[x].kind = "timeline"
           THEN /\ RecomputesFrom(x, runs[x].timestamp)
                /\ runs[x].out.proof.timestamp = toISOString(runs[x].at)
           ELSE RecomputesFrom(x, runs[x].out.proof.timestamp)

C37_Witness ==
    \E x, y \in Runs :
        /\ Emitted(x) /\ runs[x].kind = "timeline"
        /\ runs[x].timestamp # runs[x].out.proof.timestamp
        /\ ~RecomputesFrom(x, runs[x].out.proof.timestamp)
        /\ Emitted(y) /\ runs[y].kind = "risk"
        /\ runs[y].timestamp # toISOString(runs[y].at)
        /\ RecomputesFrom(y, runs[y].out.proof.timestamp)

\* The call of executeFormula as the library defines it: the formula is one
\* of the library, every required input is among the inputs provided, every
\* input provided is a finite number, none is outside the definition.
InLibrary ==
    calc.formula \in DOMAIN FORMULA_LIBRARY

Definition ==
    FORMULA_LIBRARY[calc.formula].inputs

RequiredPresent ==
    \A n \in DOMAIN Definition : Definition[n].required => n \in DOMAIN calc.inputs

AllFinite ==
    \A n \in DOMAIN calc.inputs : isFiniteNumber(calc.inputs[n])

NoExtra ==
    DOMAIN calc.inputs \subseteq DOMAIN Definition

Acceptable ==
    InLibrary /\ RequiredPresent /\ AllFinite /\ NoExtra

\* The rejection the precedence names for the call.
Rejection ==
    IF ~InLibrary THEN "unknown formula"
    ELSE IF ~NoExtra THEN "extra inputs"
    ELSE IF ~RequiredPresent THEN "missing inputs"
    ELSE IF ~AllFinite THEN "invalid types"
    ELSE "none"

\* The rejection the thrown message tells of.
Rejected(out) ==
    IF ~out.threw THEN "none"
    ELSE IF includes(out.message, <<"not found">>) THEN "unknown formula"
    ELSE IF includes(out.message, <<"Invalid", "inputs provided">>) THEN "extra inputs"
    ELSE IF includes(out.message, <<"Missing required">>) THEN "missing inputs"
    ELSE IF includes(out.message, <<"Invalid", "input types for formula">>)
    THEN "invalid types"
    ELSE "other"

\* C38: executeFormula returns a result only when the formula name is in
\* the library, every required input is present, every provided input is a
\* finite number and no input outside the definition is supplied; otherwise
\* it throws, the unknown formula first, then extra inputs, then missing
\* inputs, then invalid types; and /audit_math signs no certificate for a
\* rejected calculation.
C38_StrictFormulaValidation ==
    calc # Null
    => /\ ~calc.out.threw => Acceptable
       /\ ~Acceptable => (calc.out.threw /\ Rejected(calc.out) = Rejection)
       /\ (calc.via = "audit_math" /\ calc.out.threw)
          => (calc.reply.proof = Null /\ calc.reply.status # 200)

\* The same for calls that name no property of Object.prototype, neither as
\* the formula nor as an input.
C38_WithoutInheritedNames ==
    (/\ calc # Null
     /\ calc.formula \notin ObjectPrototype
     /\ DOMAIN calc.inputs \cap ObjectPrototype = {})
    => /\ ~calc.out.threw => Acceptable
       /\ ~Acceptable => (calc.out.threw /\ Rejected(calc.out) = Rejection)
       /\ (calc.via = "audit_math" /\ calc.out.threw)
          => (calc.reply.proof = Null /\ calc.reply.status # 200)

\* A result is returned, and signed, for inputs that carry a name outside
\* the formula's definition.
C38_ExtraInputAccepted ==
    /\ calc # Null /\ calc.via = "audit_math"
    /\ InLibrary /\ ~NoExtra
    /\ ~calc.out.threw
    /\ calc.reply.proof # Null

====
